---------------------------- MODULE Spec2Model ----------------------------
(***************************************************************************)
(* A model of nime-led-visuals: AudioAnalyzer.analyze (audio_analyzer.py)  *)
(* and the capture / render / display threads of main.py.                  *)
(*                                                                         *)
(* Numbers.  numpy floats are modelled in fixed point, together with the   *)
(* two non-finite values the float code can produce:                       *)
(*   - normalised quantities and volume: thousandths        (One = 1000)   *)
(*   - gained audio samples:              hundredths    (AudioOne = 100)   *)
(*   - raw chunk samples (float32):  ten-thousandths  (ChunkOne = 10000)   *)
(*   - band energies / power:        ten-thousandths (EnergyOne = 10000)   *)
(*   - frequencies:                  1/64 Hz             (FreqOne = 64)    *)
(* NaN and PInf are sentinels outside the finite range; every arithmetic   *)
(* operator below propagates them the way IEEE-754 / Python / numpy do.    *)
(*                                                                         *)
(* Scale.  A 2048-point transform is out of reach of explicit-state        *)
(* checking, so the two transforms are scaled to 8 / 16 samples, and       *)
(* the sample rate from 48000 to 375 Hz, which keeps the program's bin     *)
(* spacing (48000/2048 = 375/16 = 23.4375 Hz) and its 2:1 ratio between    *)
(* the spectrum buffer and the chunk.  The model therefore sees the first  *)
(* eight bins of the program's spectrum.  The 32 spectrum bands, the five  *)
(* legacy bands and every other constant are the program's.                *)
(***************************************************************************)
EXTENDS Integers, Sequences, FiniteSets, TLC

(***************************************************************************)
(* Fixed-point scales                                                      *)
(***************************************************************************)
One == 1000
AudioOne == 100
ChunkOne == 10000
EnergyOne == 10000
FreqOne == 64

(***************************************************************************)
(* Non-finite floats                                                       *)
(***************************************************************************)
NaN == -2000000000
PInf == 2000000000
\* a finite float32 sample so large that its product with INPUT_GAIN
\* exceeds the float32 range
Big == 1900000000

IsNaN(x) == x = NaN
IsFinite(x) == x # NaN /\ x # PInf

\* x * (n / d) for a finite positive constant n/d
FScale(x, n, d) == IF IsFinite(x) THEN (x * n) \div d ELSE x

FAdd(x, y) ==
    IF IsNaN(x) \/ IsNaN(y) THEN NaN
    ELSE IF x = PInf \/ y = PInf THEN PInf
    ELSE x + y

\* x - y   (inf - inf is nan)
FSub(x, y) ==
    IF IsNaN(x) \/ IsNaN(y) THEN NaN
    ELSE IF x = PInf /\ y = PInf THEN NaN
    ELSE IF x = PInf THEN PInf
    ELSE IF y = PInf THEN NaN   \* -inf never survives: every use clips or compares
    ELSE x - y

\* comparisons: every comparison with nan is False
FGt(x, y) == ~IsNaN(x) /\ ~IsNaN(y) /\ x > y
FLt(x, y) == ~IsNaN(x) /\ ~IsNaN(y) /\ x < y
FLe(x, y) == ~IsNaN(x) /\ ~IsNaN(y) /\ x <= y

\* Python's max(a, b): a unless b > a
PyMax(a, b) == IF FGt(b, a) THEN b ELSE a
PyMax3(a, b, c) == PyMax(PyMax(a, b), c)

\* np.maximum(a, b): propagates nan
NpMaximum(a, b) ==
    IF IsNaN(a) \/ IsNaN(b) THEN NaN ELSE IF a >= b THEN a ELSE b

\* np.clip(x, lo, hi): nan stays nan
NpClip(x, lo, hi) ==
    IF IsNaN(x) THEN NaN ELSE IF x < lo THEN lo ELSE IF x > hi THEN hi ELSE x

\* x / y scaled to thousandths, for x >= 0 and y > 0 (or non-finite)
FRatio(x, y) ==
    IF IsNaN(x) \/ IsNaN(y) THEN NaN
    ELSE IF x = PInf /\ y = PInf THEN NaN
    ELSE IF x = PInf THEN PInf
    ELSE IF y = PInf THEN 0
    ELSE (x * One) \div y

\* an ndarray: the values themselves, computed once when the array is built
Array(f) == f @@ <<>>

RECURSIVE SumTo(_, _)
\* f[0] + ... + f[n-1], as floats
SumTo(f, n) == IF n = 0 THEN 0 ELSE FAdd(SumTo(f, n - 1), f[n - 1])


(***************************************************************************)
(* config.py                                                               *)
(***************************************************************************)
SAMPLE_RATE == 375
CHUNK_SIZE == 8
INPUT_GAIN == 100
\* 0.01, in thousandths
NOISE_GATE_THRESHOLD == 10
NUM_SPECTRUM_BANDS == 32
FREQ_MIN == 20
FREQ_MAX == 7040
\* 0.15 s, in milliseconds
DECAY_TIME == 150

BandNames == <<"sub_bass", "bass", "low_mid", "mid_high", "treble">>

\* (low Hz, high Hz, name)
FREQ_BANDS ==
    << [lo |-> 20,   hi |-> 90,    name |-> "sub_bass"],
       [lo |-> 90,   hi |-> 250,   name |-> "bass"],
       [lo |-> 250,  hi |-> 1000,  name |-> "low_mid"],
       [lo |-> 1000, hi |-> 2500,  name |-> "mid_high"],
       [lo |-> 2500, hi |-> 20000, name |-> "treble"] >>

Bands == 0 .. (NUM_SPECTRUM_BANDS - 1)

\* the values of config.py an AudioAnalyzer is built from and decays with
DefaultConfig ==
    [SAMPLE_RATE |-> SAMPLE_RATE, FREQ_BANDS |-> FREQ_BANDS, DECAY_TIME |-> DECAY_TIME]

\* config.py as the running program imported it
VARIABLE config

\* np.logspace(log10(20), log10(7040), 33), in 1/64 Hz; SPECTRUM_FREQS[i] is
\* SpectrumFreqTable[i + 1]
SpectrumFreqTable ==
    << 1280, 1537, 1847, 2218, 2664, 3200, 3843, 4616, 5544, 6659, 7998,
       9607, 11539, 13859, 16646, 19994, 24015, 28844, 34645, 41612, 49980,
       60031, 72104, 86604, 104020, 124939, 150064, 180242, 216488, 260024,
       312316, 375123, 450560 >>
SPECTRUM_FREQS(i) == SpectrumFreqTable[i + 1]

(***************************************************************************)
(* AudioAnalyzer.__init__: transform sizes, windows, bin tables            *)
(***************************************************************************)
n_fft == CHUNK_SIZE
spectrum_n_fft == 16

\* np.hanning(8) and np.hanning(16), in thousandths
Hanning8 == << 0, 188, 611, 950, 950, 611, 188, 0 >>
Hanning16 ==
    << 0, 43, 165, 345, 552, 750, 905, 989, 989, 905, 750, 552, 345, 165, 43, 0 >>
window == Hanning8
spectrum_window == Hanning16

\* rfftfreq(n, d = 1 / sample_rate)[k], in 1/64 Hz
RfftFreq(n, k) == (k * SAMPLE_RATE * FreqOne) \div n

\* lines 52-55: np.where((freqs >= low_f) & (freqs < high_f)) for each band
\* of freq_bands; the empty set stands for None
BandBins(freq_bands) ==
    Array([b \in 1 .. Len(freq_bands) |->
            { k \in 0 .. (n_fft \div 2) :
                /\ RfftFreq(n_fft, k) >= freq_bands[b].lo * FreqOne
                /\ RfftFreq(n_fft, k) < freq_bands[b].hi * FreqOne }])

\* self.band_bins under config.py as it is in the repository
band_bins == BandBins(FREQ_BANDS)

spectrum_bins ==
    Array([i \in Bands |->
            { k \in 0 .. (spectrum_n_fft \div 2) :
                /\ RfftFreq(spectrum_n_fft, k) >= SPECTRUM_FREQS(i)
                /\ RfftFreq(spectrum_n_fft, k) < SPECTRUM_FREQS(i + 1) }])

\* the running-max decay rates, as percentages
decay_rate == 60
spectrum_decay_rate == 95

(***************************************************************************)
(* numpy.fft.rfft, as a direct transform in fixed point                    *)
(***************************************************************************)
\* 1000 * cos(2 pi j / 16), j = 0 .. 15
Cos16 ==
    << 1000, 924, 707, 383, 0, -383, -707, -924,
       -1000, -924, -707, -383, 0, 383, 707, 924 >>
CosAt(j) == Cos16[(j % 16) + 1]
SinAt(j) == Cos16[((j + 12) % 16) + 1]

RECURSIVE DftRe(_, _, _, _)
\* sum over the first m samples of xw[.] * cos(2 pi k . / n)
DftRe(xw, n, k, m) ==
    IF m = 0 THEN 0
    ELSE DftRe(xw, n, k, m - 1) + xw[m] * CosAt(k * (m - 1) * (16 \div n))

RECURSIVE DftIm(_, _, _, _)
DftIm(xw, n, k, m) ==
    IF m = 0 THEN 0
    ELSE DftIm(xw, n, k, m - 1) + xw[m] * SinAt(k * (m - 1) * (16 \div n))

\* frame * window, elementwise: thousandths of an audio unit
Windowed(frame, w) ==
    Array([m \in 1 .. Len(frame) |->
            IF IsNaN(frame[m]) THEN NaN
            ELSE IF frame[m] = PInf THEN (IF w[m] = 0 THEN NaN ELSE PInf)
            ELSE frame[m] * w[m]])

Square(x) == x * x

\* spectrum.real ** 2 + spectrum.imag ** 2 for bins 0 .. n/2, in energy units.
\* One non-finite sample makes every bin of the transform nan.
PowerSpectrum(frame, w) ==
    LET n == Len(frame)
        xw == Windowed(frame, w)
        finite == \A m \in 1 .. n : IsFinite(xw[m])
    IN  Array([k \in 0 .. (n \div 2) |->
                IF ~finite THEN NaN
                ELSE (Square(DftRe(xw, n, k, n) \div (AudioOne * One))
                      + Square(DftIm(xw, n, k, n) \div (AudioOne * One)))
                     \div ((One * One) \div EnergyOne)])

RECURSIVE SumSet(_, _)
\* the float sum of f over the finite set S
SumSet(f, S) ==
    IF S = {} THEN 0
    ELSE LET k == CHOOSE x \in S : TRUE
         IN  FAdd(f[k], SumSet(f, S \ {k}))

\* float(np.mean(power[idx])), 0.0 when idx is None
BandMean(power, idx) ==
    IF idx = {} THEN 0 ELSE FScale(SumSet(power, idx), 1, Cardinality(idx))

(***************************************************************************)
(* Library functions in fixed point: sqrt, log10, exp, 10 ** x             *)
(***************************************************************************)
RECURSIVE ISqrtBetween(_, _, _)
ISqrtBetween(n, lo, hi) ==
    IF lo >= hi THEN lo
    ELSE LET mid == (lo + hi + 1) \div 2
         IN  IF mid * mid <= n THEN ISqrtBetween(n, mid, hi)
             ELSE ISqrtBetween(n, lo, mid - 1)

\* floor(sqrt(n))
ISqrt(n) == ISqrtBetween(n, 0, 46340)

\* 64 * 10 ** (m / 20) for m = 0 .. 80: the frequencies (1/64 Hz) whose log10
\* is m / 20
Pow10Table ==
    << 64, 72, 81, 90, 101, 114, 128, 143, 161, 180,
       202, 227, 255, 286, 321, 360, 404, 453, 508, 570,
       640, 718, 806, 904, 1014, 1138, 1277, 1433, 1608, 1804,
       2024, 2271, 2548, 2859, 3208, 3599, 4038, 4531, 5084, 5704,
       6400, 7181, 8057, 9040, 10143, 11381, 12770, 14328, 16076, 18038,
       20239, 22708, 25479, 28588, 32076, 35990, 40381, 45309, 50837, 57040,
       64000, 71809, 80571, 90402, 101433, 113810, 127697, 143278, 160761, 180377,
       202386, 227081, 254789, 285877, 320760, 359898, 403813, 453085, 508370, 570401,
       640000 >>

\* np.log10(x) in thousandths, for a frequency x >= 1 Hz given in 1/64 Hz
Log10(x) ==
    LET hits == { m \in 1 .. Len(Pow10Table) : Pow10Table[m] <= x }
    IN  (Cardinality(hits) - 1) * 50

\* np.exp(-((deviation / 0.015) ** 2) / 2.0) in thousandths, the deviation in
\* steps of 0.0025
GaussTable ==
    << 1000, 986, 946, 882, 801, 707, 607, 506, 411, 325, 249,
       186, 135, 96, 66, 44, 29, 18, 11, 7, 4 >>
\* dev: the deviation in units of 0.0001
Gaussian(dev) ==
    LET i == (dev \div 25) + 1
    IN  IF i > Len(GaussTable) THEN 0 ELSE GaussTable[i]

\* 10.0 ** (-d / 20.0) in thousandths for d = 0 .. 36 dB
DbTable ==
    << 1000, 891, 794, 708, 631, 562, 501, 447, 398, 355, 316, 282, 251,
       224, 200, 178, 158, 141, 126, 112, 100, 89, 79, 71, 63, 56, 50, 45,
       40, 35, 32, 28, 25, 22, 20, 18, 16 >>
\* mdb: the attenuation in thousandths of a dB
DbToLinear(mdb) == DbTable[(mdb \div One) + 1]

Abs(x) == IF x < 0 THEN -x ELSE x

(***************************************************************************)
(* analyze(), lines 91-105: conversion, downmix, gain, volume              *)
(***************************************************************************)
\* astype(np.float32), and / 32768.0 for int16 input
ConvertSample(dtype, s) ==
    IF dtype = "int16" THEN (s * ChunkOne) \div 32768 ELSE s

\* np.mean(audio, axis = -1) of one stereo sample
Downmix(ch) ==
    IF IsNaN(ch[1]) \/ IsNaN(ch[2]) THEN NaN
    ELSE IF ch[1] = PInf \/ ch[2] = PInf THEN PInf
    ELSE IF ch[1] = Big \/ ch[2] = Big THEN Big
    ELSE (ch[1] + ch[2]) \div 2

\* audio * INPUT_GAIN in float32: a huge finite sample overflows to inf
Gain(v) ==
    IF ~IsFinite(v) THEN v
    ELSE IF v = Big THEN PInf
    ELSE (v * INPUT_GAIN * AudioOne) \div ChunkOne

\* the mono, gained chunk
Audio(chunk) ==
    Array([i \in 1 .. Len(chunk.samples) |->
            LET s == chunk.samples[i]
            IN  Gain(IF chunk.ndim = 2
                     THEN Downmix([c \in 1 .. 2 |-> ConvertSample(chunk.dtype, s[c])])
                     ELSE ConvertSample(chunk.dtype, s))])

RECURSIVE SumSquares(_, _)
SumSquares(audio, m) ==
    IF m = 0 THEN 0 ELSE SumSquares(audio, m - 1) + audio[m] * audio[m]

\* float(np.sqrt(np.mean(audio ** 2))) if audio.size > 0 else 0.0, in thousandths
Volume(audio) ==
    IF Len(audio) = 0 THEN 0
    ELSE IF \E m \in 1 .. Len(audio) : IsNaN(audio[m]) THEN NaN
    ELSE IF \E m \in 1 .. Len(audio) : audio[m] = PInf THEN PInf
    ELSE ISqrt((SumSquares(audio, Len(audio)) * Square(One \div AudioOne))
               \div Len(audio))

\* the gate mistaken for a threshold on the chunk before INPUT_GAIN
GatedBeforeGain(volume) == FLt(volume, NOISE_GATE_THRESHOLD \div INPUT_GAIN)

\* volume < NOISE_GATE_THRESHOLD
Gated(volume) == FLt(volume, NOISE_GATE_THRESHOLD)

(***************************************************************************)
(* analyze(), lines 107-131: the noise gate                                *)
(***************************************************************************)
\* a gate that leaves the envelope where it is
GateEnvelopeHeld(env) == env

\* self.envelope_value *= 0.85, snapped to 0.0 below 0.01
GateEnvelope(env) ==
    LET e == FScale(env, 85, 100)
    IN  IF FLt(e, One \div 100) THEN 0 ELSE e

\* self.prev_spectrum *= 0.9
GateSpectrum(prev) == Array([i \in Bands |-> FScale(prev[i], 9, 10)])

GatedFrame(env, spec) ==
    [ volume |-> 0, bass |-> 0, mid |-> 0, high |-> 0, sub_bass |-> 0,
      low_mid |-> 0, mid_high |-> 0, treble |-> 0, centroid |-> 0,
      bandwidth |-> 0, transient |-> 0, envelope |-> env, spectrum |-> spec,
      dominant_band |-> -1, dominant_freq |-> 0, tonalness |-> 0 ]

(***************************************************************************)
(* analyze(), lines 133-153: framing, the roll of the spectrum buffer      *)
(***************************************************************************)
\* the last n_fft samples, zero-padded in front when the chunk is shorter
LegacyFrame(audio) ==
    LET L == Len(audio)
    IN  Array([m \in 1 .. n_fft |->
                IF L < n_fft
                THEN (IF m <= n_fft - L THEN 0 ELSE audio[m - (n_fft - L)])
                ELSE audio[L - n_fft + m]])

\* np.roll(buffer, +L)
RollRight(buffer, L) ==
    Array([m \in 1 .. Len(buffer) |->
            buffer[((m - 1 + Len(buffer) * L - L) % Len(buffer)) + 1]])

\* np.roll(buffer, -L)
Roll(buffer, L) ==
    Array([m \in 1 .. Len(buffer) |-> buffer[((m - 1 + L) % Len(buffer)) + 1]])

\* buffer[-L:] = audio, for 0 < L <= len(buffer)
StoreTail(buffer, audio) ==
    LET N == Len(buffer)
        L == Len(audio)
    IN  Array([m \in 1 .. N |-> IF m <= N - L THEN buffer[m] ELSE audio[m - (N - L)]])

(***************************************************************************)
(* analyze(), lines 159-231: band energies, bass boost, harmonic           *)
(* suppression, clean-up                                                   *)
(***************************************************************************)
\* 2.0 - (i / 4.0) * 1.0 for i < 4, else 1.0: in quarters
BassBoost4(i) == IF i < 4 THEN 8 - i ELSE 4

\* twice the centre frequency of band i
Centre2(i) == SPECTRUM_FREQS(i) + SPECTRUM_FREQS(i + 1)

RECURSIVE ArgMaxTo(_, _)
\* np.argmax over f[0 .. n-1]: the first index of the maximum
ArgMaxTo(f, n) ==
    IF n = 1 THEN 0
    ELSE LET best == ArgMaxTo(f, n - 1)
         IN  IF f[n - 1] > f[best] THEN n - 1 ELSE best

ArgMax(f) == ArgMaxTo(f, NUM_SPECTRUM_BANDS)

\* 0.95 <= band_center_freq / (fundamental_freq * h) <= 1.05
InWindow(c2, f2, h) == 95 * f2 * h <= 100 * c2 /\ 100 * c2 <= 105 * f2 * h

Harmonics == 2 .. 15

\* the first harmonic number whose window holds the band centre, 0 when none
HarmonicOf(c2, f2) ==
    LET hits == { h \in Harmonics : InWindow(c2, f2, h) }
    IN  IF hits = {} THEN 0 ELSE CHOOSE h \in hits : \A g \in hits : h <= g

\* abs(freq_ratio - 1.0), in units of 0.0001
Deviation(c2, f2, h) == (Abs(c2 - f2 * h) * 10000) \div (f2 * h)

BaseSuppressionDb(h) == IF h = 2 THEN 36 ELSE IF h = 3 THEN 30 ELSE 24

\* harmonic_suppression[band_idx] in thousandths, given the dominant band
SuppressionFromFundamental(band_idx, temp_dominant_band) ==
    LET c2 == Centre2(band_idx)
        f2 == Centre2(temp_dominant_band)
        h == IF band_idx = temp_dominant_band THEN 1 ELSE HarmonicOf(c2, f2)
    IN  IF h = 0 THEN One
        ELSE LET lin == DbToLinear(BaseSuppressionDb(h) * Gaussian(Deviation(c2, f2, h)))
             IN  IF lin < One THEN lin ELSE One

SuppressionFactor(band_idx, temp_dominant_band) ==
    LET c2 == Centre2(band_idx)
        f2 == Centre2(temp_dominant_band)
        h == HarmonicOf(c2, f2)
    IN  IF h = 0 THEN One
        ELSE LET lin == DbToLinear(BaseSuppressionDb(h) * Gaussian(Deviation(c2, f2, h)))
             IN  IF lin < One THEN lin ELSE One

\* the k-th smallest (k >= 1) of the values f[i], i in S
KthSmallest(f, S, k) ==
    LET i == CHOOSE x \in S :
                /\ Cardinality({ j \in S : f[j] < f[x] }) < k
                /\ Cardinality({ j \in S : f[j] <= f[x] }) >= k
    IN  f[i]

\* float(np.median(values)) of the values f[i], i in S (S not empty)
Median(f, S) ==
    LET n == Cardinality(S)
    IN  IF n % 2 = 1 THEN KthSmallest(f, S, (n + 1) \div 2)
        ELSE (KthSmallest(f, S, n \div 2) + KthSmallest(f, S, (n \div 2) + 1)) \div 2

\* lines 164-231.  The result: the band energies after each stage, the
\* dominant band found before suppression (-1: never assigned), and whether
\* the clean-up loop read an unassigned temp_dominant_band (NameError).
ShapeBands(raw) ==
    LET boosted == Array([i \in Bands |-> FScale(raw[i], BassBoost4(i), 4)])
        assigned == FGt(SumTo(boosted, NUM_SPECTRUM_BANDS), 0)
        temp_dominant_band == IF assigned THEN ArgMax(boosted) ELSE -1
        harmonic_suppression ==
            Array([i \in Bands |->
                    IF assigned THEN SuppressionFactor(i, temp_dominant_band) ELSE One])
        suppressed ==
            Array([i \in Bands |-> FScale(boosted[i], harmonic_suppression[i], One)])
        \* spectrum_bands > 0.0001
        non_zero == { i \in Bands : FGt(suppressed[i], EnergyOne \div 10000) }
        cleanup == Cardinality(non_zero) > 5
        median_energy == Median(suppressed, non_zero)
        \* spectrum_bands[i] > median_energy * 2.5
        outlier(i) == cleanup /\ FGt(FScale(suppressed[i], 2, 1), FScale(median_energy, 5, 1))
        cleaned ==
            Array([i \in Bands |->
                    IF outlier(i) /\ i # temp_dominant_band
                    THEN FScale(suppressed[i], 3, 10) ELSE suppressed[i]])
    IN  [ raw |-> raw, boosted |-> boosted,
          temp_dominant_band |-> temp_dominant_band,
          harmonic_suppression |-> harmonic_suppression,
          suppressed |-> suppressed, cleaned |-> cleaned, cleanup |-> cleanup,
          name_error |-> ~assigned /\ \E i \in Bands : outlier(i) ]

\* lines 159-162: the mean power of each band's bins, then lines 164-231
SpectrumBands(spectrum_power) ==
    ShapeBands(Array([i \in Bands |-> BandMean(spectrum_power, spectrum_bins[i])]))

(***************************************************************************)
(* analyze(), lines 236-273: dominance, running max, normalisation,        *)
(* smoothing                                                               *)
(***************************************************************************)
\* the lower edge of the dominant band reported in place of its midpoint
DominanceLowerEdge(spectrum_bands) ==
    LET total_band_energy == SumTo(spectrum_bands, NUM_SPECTRUM_BANDS)
    IN  IF FGt(total_band_energy, 0)
        THEN LET dominant_band == ArgMax(spectrum_bands)
             IN  [ dominant_band |-> dominant_band,
                   tonalness |-> FRatio(spectrum_bands[dominant_band], total_band_energy),
                   dominant_freq |-> SPECTRUM_FREQS(dominant_band) ]
        ELSE [ dominant_band |-> -1, tonalness |-> 0, dominant_freq |-> 0 ]

\* dominant_band, dominant_freq (1/64 Hz), tonalness (thousandths)
Dominance(spectrum_bands) ==
    LET total_band_energy == SumTo(spectrum_bands, NUM_SPECTRUM_BANDS)
    IN  IF FGt(total_band_energy, 0)
        THEN LET dominant_band == ArgMax(spectrum_bands)
             IN  [ dominant_band |-> dominant_band,
                   tonalness |-> FRatio(spectrum_bands[dominant_band], total_band_energy),
                   dominant_freq |-> Centre2(dominant_band) \div 2 ]
        ELSE [ dominant_band |-> -1, tonalness |-> 0, dominant_freq |-> 0 ]

\* np.maximum(spectrum_bands, self.spectrum_max * self.spectrum_decay_rate)
SpectrumMax(spectrum_bands, spectrum_max) ==
    Array([i \in Bands |->
            NpMaximum(spectrum_bands[i], FScale(spectrum_max[i], spectrum_decay_rate, 100))])

RECURSIVE NpMaxTo(_, _)
\* np.max over f[0 .. n-1]: nan when any entry is nan
NpMaxTo(f, n) == IF n = 1 THEN f[0] ELSE NpMaximum(NpMaxTo(f, n - 1), f[n - 1])

\* global_max = np.max(self.spectrum_max): one reference for all 32 bands
GlobalMax(spectrum_max) == NpMaxTo(spectrum_max, NUM_SPECTRUM_BANDS)

\* each spectrum band divided by its own running max
SpectrumNormPerBand(spectrum_bands, spectrum_max) ==
    Array([i \in Bands |->
            NpClip(IF FGt(spectrum_bands[i], 0)
                   THEN FRatio(spectrum_bands[i],
                               NpMaximum(spectrum_max[i], EnergyOne \div 100))
                   ELSE 0,
                   0, One)])

\* lines 255-264: spectrum_norm, given the updated spectrum_max
SpectrumNorm(spectrum_bands, spectrum_max) ==
    LET global_max == GlobalMax(spectrum_max)
    IN  Array([i \in Bands |->
                NpClip(IF FGt(spectrum_bands[i], 0)
                       THEN FRatio(spectrum_bands[i],
                                   NpMaximum(global_max, EnergyOne \div 100))
                       ELSE 0,
                       0, One)])

\* lines 267-273: attack 0.6, decay 0.2
Smooth(prev, norm) ==
    IF FGt(norm, prev)
    THEN FAdd(prev, FScale(FSub(norm, prev), 6, 10))
    ELSE FAdd(prev, FScale(FSub(norm, prev), 2, 10))

(***************************************************************************)
(* analyze(), lines 276-293: the five legacy bands                         *)
(***************************************************************************)
BandIndex == 1 .. Len(FREQ_BANDS)
NameSet == { FREQ_BANDS[b].name : b \in BandIndex }
IndexOf(name) == CHOOSE b \in BandIndex : FREQ_BANDS[b].name = name

\* lines 280-283, idx being self.band_bins[name]
BandEnergy(power, bins, name) == BandMean(power, bins[IndexOf(name)])

\* self.band_max[name] = max(energy, self.band_max[name] * self.decay_rate)
BandMax(energy, band_max) == PyMax(energy, FScale(band_max, decay_rate, 100))

\* the reference one legacy band is divided by: max(self.band_max[name], 0.01)
BandReference(band_max, name) == PyMax(band_max[name], EnergyOne \div 100)

\* np.clip(energy / max(self.band_max[name], 0.01), 0.0, 1.0)
BandNorm(energy, band_max, name) ==
    NpClip(FRatio(energy, BandReference(band_max, name)), 0, One)

RECURSIVE TotalEnergy(_, _)
\* total_energy += energy, in the order of FREQ_BANDS
TotalEnergy(energy, b) ==
    IF b = 0 THEN 0 ELSE FAdd(TotalEnergy(energy, b - 1), energy[FREQ_BANDS[b].name])

(***************************************************************************)
(* analyze(), lines 295-320: spectral centroid and bandwidth               *)
(***************************************************************************)
LegacyBins == 0 .. (n_fft \div 2)

RECURSIVE WeightedSum(_, _, _)
\* sum over bins 0 .. k-1 of v[bin] * w[bin] / 1000
WeightedSum(v, w, k) ==
    IF k = 0 THEN 0 ELSE WeightedSum(v, w, k - 1) + (v[k - 1] * w[k - 1]) \div One

\* [centroid_norm, bandwidth_norm] in thousandths
SpectralShape(power) ==
    LET mag_sum == SumTo(power, (n_fft \div 2) + 1)
        has == FGt(mag_sum, 0)
        mag_norm == Array([k \in LegacyBins |-> FRatio(power[k], mag_sum)])
        freqs == Array([k \in LegacyBins |-> RfftFreq(n_fft, k)])
        centroid_hz == IF has THEN WeightedSum(freqs, mag_norm, (n_fft \div 2) + 1) ELSE 0
        \* (freqs - centroid_hz) ** 2, in (1/4 Hz) ** 2
        spread == Array([k \in LegacyBins |-> Square((freqs[k] - centroid_hz) \div 16)])
        variance == IF has THEN WeightedSum(spread, mag_norm, (n_fft \div 2) + 1) ELSE 0
        bandwidth_hz == IF variance > 0 THEN ISqrt(variance) * 16 ELSE 0
        centroid_norm ==
            IF centroid_hz <= 0 THEN 0
            ELSE NpClip((Log10(IF centroid_hz > FREQ_MIN * FreqOne
                               THEN centroid_hz ELSE FREQ_MIN * FreqOne) * One)
                        \div Log10(FREQ_MAX * FreqOne), 0, One)
        bandwidth_norm ==
            IF bandwidth_hz <= 0 THEN 0
            ELSE NpClip((Log10(IF bandwidth_hz > FreqOne
                               THEN bandwidth_hz ELSE FreqOne) * One)
                        \div Log10((FREQ_MAX * FreqOne) \div 4), 0, One)
    IN  [ centroid |-> centroid_norm, bandwidth |-> bandwidth_norm ]

(***************************************************************************)
(* analyze(), lines 322-340: transient and envelope                        *)
(***************************************************************************)
\* max(0.0, energy_change) / max(total_energy, 0.001), clipped; 0.0 when the
\* total is not positive
Transient(total_energy, prev_raw_volume) ==
    LET energy_change == FSub(total_energy, prev_raw_volume)
    IN  NpClip(IF FGt(total_energy, 0)
               THEN FRatio(PyMax(0, energy_change),
                           PyMax(total_energy, EnergyOne \div 1000))
               ELSE 0,
               0, One)

\* 1.0 - (CHUNK_SIZE / self.sample_rate) / DECAY_TIME, in thousandths, for
\* DECAY_TIME in milliseconds
DecayFactor(sample_rate, decay_time) ==
    One - (CHUNK_SIZE * One * One) \div (sample_rate * decay_time)

\* max(bass, mid, high)
Target(bass, mid, high) == PyMax3(bass, mid, high)

\* an attack that moves the envelope half of the way to the target
EnvelopeSlewed(env, target, sample_rate, decay_time) ==
    NpClip(IF FGt(target, env) THEN FAdd(env, FScale(FSub(target, env), 1, 2))
           ELSE FScale(env, DecayFactor(sample_rate, decay_time), One), 0, One)

\* lines 333-340
Envelope(env, target, sample_rate, decay_time) ==
    NpClip(IF FGt(target, env) THEN target
           ELSE FScale(env, DecayFactor(sample_rate, decay_time), One), 0, One)

(***************************************************************************)
(* AudioAnalyzer: construction and analyze()                               *)
(***************************************************************************)
\* __init__, lines 24-70, under the FREQ_BANDS of config.py: nothing is
\* validated.  The only statement that can raise is line 43,
\* rfftfreq(self.n_fft, d=1.0 / self.sample_rate), with a sample rate of 0
\* (ZeroDivisionError); a band without bins gets None.  The bin tables of the
\* spectrum bands and the centroid's frequencies are those of SAMPLE_RATE, the
\* one non-zero sample rate analyzers are built with here.
Construct(sample_rate, freq_bands) ==
    [ raised |-> sample_rate = 0,
      self |->
        [ sample_rate |-> sample_rate,
          band_max |-> [name \in NameSet |-> EnergyOne \div 10],
          prev_raw_volume |-> 0,
          spectrum_max |-> [i \in Bands |-> EnergyOne \div 10],
          prev_spectrum |-> [i \in Bands |-> 0],
          envelope_value |-> 0,
          spectrum_buffer |-> [m \in 1 .. spectrum_n_fft |-> 0],
          band_bins |-> IF sample_rate = 0 THEN <<>> ELSE BandBins(freq_bands) ] ]

\* AudioAnalyzer() under config.py as it is in the repository
NewAnalyzer == Construct(SAMPLE_RATE, FREQ_BANDS).self

\* the running peaks, the previous total energy and the previous spectrum an
\* analyzer carries
Carried(self) ==
    [ band_max |-> self.band_max, spectrum_max |-> self.spectrum_max,
      prev_raw_volume |-> self.prev_raw_volume, prev_spectrum |-> self.prev_spectrum ]

\* a frame that holds self.prev_spectrum itself
NoCopy(array) == [array |-> array, same |-> TRUE]

\* lines 127, 355: self.prev_spectrum.copy(), a new array with the contents
\* the analyzer's array has at the return; same says whether the two are one
\* object
Copy(array) == [array |-> array, same |-> FALSE]

\* what a call leaves behind for the properties to read: the path taken, the
\* carried values the call started from and the intermediate values of the call
NoTrace ==
    [ path |-> "none", volume |-> 0, length |-> 0, env_before |-> 0, target |-> 0,
      before |-> Carried(NewAnalyzer),
      energy |-> [name \in NameSet |-> 0], total_energy |-> 0,
      spectrum_bands |-> [i \in Bands |-> 0],
      spectrum_norm |-> [i \in Bands |-> 0],
      boosted |-> [i \in Bands |-> 0],
      harmonic_suppression |-> [i \in Bands |-> One],
      temp_dominant_band |-> -1,
      \* the frame's spectrum is the array self.prev_spectrum
      aliased |-> FALSE ]

\* lines 108-131
AnalyzeGated(self, audio, volume) ==
    LET env == GateEnvelope(self.envelope_value)
        spec == GateSpectrum(self.prev_spectrum)
    IN  [ raised |-> FALSE,
          self |-> [self EXCEPT !.envelope_value = env, !.prev_spectrum = spec],
          frame |-> GatedFrame(env, Copy(spec).array),
          trace |-> [NoTrace EXCEPT !.path = "gated", !.volume = volume,
                                    !.length = Len(audio),
                                    !.env_before = self.envelope_value,
                                    !.before = Carried(self),
                                    !.aliased = Copy(spec).same] ]

\* an exception leaves analyze(): no frame is returned, and the analyzer is
\* left as the statements before the raise made it
AnalyzeRaises(self, left, audio, volume) ==
    [ raised |-> TRUE,
      self |-> left,
      frame |-> GatedFrame(0, self.prev_spectrum),
      trace |-> [NoTrace EXCEPT !.path = "raised", !.volume = volume,
                                !.length = Len(audio),
                                !.env_before = self.envelope_value,
                                !.before = Carried(self)] ]

\* lines 133-359
AnalyzeFull(self, audio, volume) ==
    LET power == PowerSpectrum(LegacyFrame(audio), window)
        spectrum_buffer == StoreTail(Roll(self.spectrum_buffer, Len(audio)), audio)
        spectrum_power == PowerSpectrum(spectrum_buffer, spectrum_window)
        sb == SpectrumBands(spectrum_power)
        spectrum_bands == sb.cleaned
        dom == Dominance(spectrum_bands)
        spectrum_max == SpectrumMax(spectrum_bands, self.spectrum_max)
        spectrum_norm == SpectrumNorm(spectrum_bands, spectrum_max)
        prev_spectrum ==
            Array([i \in Bands |-> Smooth(self.prev_spectrum[i], spectrum_norm[i])])
        energy == Array([name \in NameSet |-> BandEnergy(power, self.band_bins, name)])
        total_energy == TotalEnergy(energy, Len(FREQ_BANDS))
        band_max ==
            Array([name \in NameSet |-> BandMax(energy[name], self.band_max[name])])
        band_norms ==
            Array([name \in NameSet |-> BandNorm(energy[name], band_max, name)])
        bass == band_norms["bass"]
        mid == FScale(FAdd(band_norms["low_mid"], band_norms["mid_high"]), 1, 2)
        high == band_norms["treble"]
        shape == SpectralShape(power)
        transient == Transient(total_energy, self.prev_raw_volume)
        target == Target(bass, mid, high)
        envelope_value ==
            Envelope(self.envelope_value, target, self.sample_rate, config.DECAY_TIME)
        \* the state as line 329 leaves it, before the envelope is updated
        updated == [self EXCEPT !.band_max = band_max,
                                !.prev_raw_volume = total_energy,
                                !.spectrum_max = spectrum_max,
                                !.prev_spectrum = prev_spectrum,
                                !.spectrum_buffer = spectrum_buffer]
    IN  \* line 229 reads temp_dominant_band, which line 180 never assigned
        IF sb.name_error
        THEN AnalyzeRaises(self, [self EXCEPT !.spectrum_buffer = spectrum_buffer],
                           audio, volume)
        \* line 337 on the decay branch with DECAY_TIME = 0: ZeroDivisionError
        ELSE IF ~FGt(target, self.envelope_value) /\ config.DECAY_TIME = 0
        THEN AnalyzeRaises(self, updated, audio, volume)
        ELSE
        [ raised |-> FALSE,
          self |-> [updated EXCEPT !.envelope_value = envelope_value],
          frame |-> [ volume |-> volume, bass |-> bass, mid |-> mid, high |-> high,
                      sub_bass |-> band_norms["sub_bass"],
                      low_mid |-> band_norms["low_mid"],
                      mid_high |-> band_norms["mid_high"],
                      treble |-> band_norms["treble"],
                      centroid |-> shape.centroid, bandwidth |-> shape.bandwidth,
                      transient |-> transient, envelope |-> envelope_value,
                      spectrum |-> Copy(prev_spectrum).array,
                      dominant_band |-> dom.dominant_band,
                      dominant_freq |-> dom.dominant_freq,
                      tonalness |-> dom.tonalness ],
          trace |-> [ path |-> "full", volume |-> volume, length |-> Len(audio),
                      env_before |-> self.envelope_value, target |-> target,
                      before |-> Carried(self),
                      energy |-> energy, total_energy |-> total_energy,
                      spectrum_bands |-> spectrum_bands,
                      spectrum_norm |-> spectrum_norm,
                      boosted |-> sb.boosted,
                      harmonic_suppression |-> sb.harmonic_suppression,
                      temp_dominant_band |-> sb.temp_dominant_band,
                      aliased |-> Copy(prev_spectrum).same ] ]

\* analyze(audio_chunk)
Analyze(self, chunk) ==
    LET audio == Audio(chunk)
        volume == Volume(audio)
    IN  IF Gated(volume) THEN AnalyzeGated(self, audio, volume)
        \* line 148 with a chunk longer than the buffer: the slice assignment
        \* raises ValueError after line 147 rolled the buffer
        ELSE IF Len(audio) > spectrum_n_fft
             THEN AnalyzeRaises(self,
                                [self EXCEPT !.spectrum_buffer =
                                                Roll(self.spectrum_buffer, Len(audio))],
                                audio, volume)
        ELSE AnalyzeFull(self, audio, volume)

(***************************************************************************)
(* Input chunks                                                            *)
(***************************************************************************)
Int16(samples) == [dtype |-> "int16", ndim |-> 1, samples |-> samples]
Float32(samples) == [dtype |-> "float32", ndim |-> 1, samples |-> samples]

\* digital silence
Silence == Int16(<<0, 0, 0, 0, 0, 0, 0, 0>>)
\* an empty chunk
Empty == Float32(<<>>)
\* not silent, RMS below the gate
Quiet == Float32(<<1, 0, 0, 0, 0, 0, 0, 0>>)
\* RMS exactly NOISE_GATE_THRESHOLD
AtThreshold == Float32(<<1, 1, 1, 1, 1, 1, 1, 1>>)
\* one period of a 46.875 Hz sine, amplitude 0.5 after gain
SubTone == Int16(<<0, 116, 164, 116, 0, -116, -164, -116>>)
\* two periods of a 93.75 Hz sine, amplitude 0.8 after gain
BassTone == Float32(<<0, 80, 0, -80, 0, 80, 0, -80>>)
\* the same tone at a quarter of the amplitude
BassSoft == Float32(<<0, 20, 0, -20, 0, 20, 0, -20>>)
\* a click: broadband
Click == Int16(<<0, 0, 0, 328, -328, 0, 0, 0>>)
\* a stereo chunk
Stereo == [dtype |-> "float32", ndim |-> 2,
           samples |-> << <<0, 0>>, <<40, 20>>, <<60, 60>>, <<40, 20>>,
                          <<0, 0>>, <<-40, -20>>, <<-60, -60>>, <<-40, -20>> >>]
\* a chunk holding one nan sample
NaNChunk == Float32(<<0, 50, 0, NaN, 0, 50, 0, -50>>)
\* a chunk holding one finite sample beyond float32 / INPUT_GAIN
BigChunk == Float32(<<0, 50, 0, Big, 0, 50, 0, -50>>)
\* shorter than CHUNK_SIZE
Short == Float32(<<0, 60, 0, -60>>)
\* between CHUNK_SIZE and spectrum_n_fft
Long == Float32(<<0, 30, 0, -30, 0, 30, 0, -30, 0, 30, 0, -30>>)
\* exactly spectrum_n_fft
Full == Float32(<<0, 45, 64, 45, 0, -45, -64, -45, 0, 45, 64, 45, 0, -45, -64, -45>>)
\* one sample more than the spectrum buffer holds
TooLong == Float32(<<0, 30, 0, -30, 0, 30, 0, -30, 0, 30, 0, -30, 0, 30, 0, -30, 0>>)

\* the chunks a caller may pass
Chunks == << Silence, Empty, Quiet, AtThreshold, SubTone, BassTone, BassSoft, Click,
             Stereo, NaNChunk, BigChunk, Short, Long, Full, TooLong >>

(***************************************************************************)
(* State                                                                   *)
(***************************************************************************)
VARIABLES
    analyzer,         \* the AudioAnalyzer instance
    features,         \* the frame the last analyze() call returned
    trace,            \* the path and intermediate values of the last call
    raised,           \* an exception has left analyze()
    calls,            \* analyze() calls made so far
    silent_run,       \* history: the gated calls made in a row, up to MaxSilentRun
    ingested,         \* history: samples stored in spectrum_buffer, up to its size
    finite_input,     \* history: every chunk passed so far held finite samples only
    last_chunk,       \* history: the chunk of the last analyze() call
    steady,           \* history: per band, the non-gated calls in a row with one energy
    repeats,          \* history: the calls made with the chunk of the call before
    built,            \* AudioAnalyzer(): "no", "yes", or "raised"
    earlier,          \* history: the frame of the call before, then and now
    passed,           \* history: the gained samples of the chunks that passed the
                      \* gate, the latest spectrum_n_fft of them
    stop_event,       \* main.py: threading.Event
    shared_features,  \* main.py: the dict the three threads share
    published,        \* history: the shared_features.update() calls made so far
    written,          \* history: the update that wrote each key of the dict
    seen,             \* history: the update frequency_spectrum last saw under each
                      \* key, where a specification keeps it
    audio_pc,         \* audio_thread_func: where the thread is
    chunk,            \* audio_thread_func: the chunk read_chunk() returned
    audio_closes,     \* history: the audio.close() calls made so far
    led_pc,           \* led_thread_func: where the thread is
    led,              \* frequency_spectrum: the values its four get() calls returned
    led_seq,          \* history: the update each of those values was written by
    pixels,           \* what the strips show
    main_pc,          \* main(): where the main thread is
    main,             \* main(): the values its three get() calls returned
    main_seq,         \* history: the update each of those values was written by
    shaped,           \* lines 164-246 applied to band energies of one's choosing
    stats,            \* test_audio.py main(): the FileAudioInput and the loop's locals
    selected,         \* _select_input_device() applied to devices of one's choosing
    effects,          \* LEDEffects: the class-level smoothing state and the strips
    tone              \* the sine tone being fed: period, amplitude, chunks fed

analyzer_vars ==
    <<analyzer, features, trace, raised, calls, silent_run, ingested, finite_input,
      last_chunk, steady, repeats, config, built, earlier, passed>>
thread_vars ==
    <<stop_event, shared_features, published, written, seen, audio_pc, chunk,
      audio_closes,
      led_pc, led, led_seq, pixels, main_pc, main, main_seq>>
other_vars == <<shaped, stats, selected, effects, tone>>
vars == <<analyzer_vars, thread_vars, other_vars>>

\* the number of analyze() calls explored
MaxCalls == 3
\* the length up to which a run of gated calls is counted
MaxSilentRun == 32
\* the length up to which a run of calls with one band energy is counted
MaxSteadyRun == 8

Min(a, b) == IF a < b THEN a ELSE b

\* main(), lines 146-160: the shared dict before the first update
InitialFeatures ==
    [ volume |-> 0, bass |-> 0, mid |-> 0, high |-> 0, sub_bass |-> 0,
      low_mid |-> 0, mid_high |-> 0, treble |-> 0, centroid |-> 0,
      bandwidth |-> 0, transient |-> 0, envelope |-> 0,
      \* 'spectrum': None, read by both readers as "no spectrum yet"
      spectrum |-> <<>> ]

\* dict.get(key, default)
Get(d, key, default) == IF key \in DOMAIN d THEN d[key] ELSE default

\* dict.update(other)
Update(d, other) == other @@ d

\* the keys of the dict analyze() returns
FrameKeys == DOMAIN GatedFrame(0, <<>>)

LedLocals == [spectrum |-> <<>>, envelope |-> 0, dominant_band |-> -1, tonalness |-> 0]
MainLocals == [spectrum |-> <<>>, dominant_freq |-> 0, tonalness |-> 0]

\* lines 164-246 on the band energies raw
Shaped(raw) ==
    LET sb == ShapeBands(raw)
    IN  [ applied |-> TRUE, raw |-> raw, boosted |-> sb.boosted,
          temp_dominant_band |-> sb.temp_dominant_band,
          harmonic_suppression |-> sb.harmonic_suppression,
          cleaned |-> sb.cleaned, cleanup |-> sb.cleanup,
          name_error |-> sb.name_error,
          dominant_band |-> IF sb.name_error THEN -1
                            ELSE Dominance(sb.cleaned).dominant_band ]

\* test_audio.py lines 40-42 over a FileAudioInput (audio_input.py lines
\* 91-105) that loaded length samples: initial_position None is -1
NewStats(length) ==
    [ length |-> length, position |-> 0, pc |-> "loop", first_chunk |-> TRUE,
      initial_position |-> -1, chunk_count |-> 0, wraps |-> 0,
      \* the input went back to the start of the file in an iteration that
      \* evaluates the elif at line 62
      looped |-> FALSE ]

\* effects.py lines 37-41: the class-level state, and strips nothing was
\* drawn on; the other fields describe the last frequency_spectrum() call
NewEffects ==
    [ _prev_hue |-> 0, _prev_brightness |-> 0, _prev_edge |-> 0, _prev_bass |-> 0,
      strips |-> "black", raised |-> FALSE,
      calls |-> 0, rendered |-> 0, zero_run |-> 0, envelope |-> 0, before |-> 0,
      gated |-> FALSE ]

\* no tone is being fed
NoTone == [period |-> 0, amplitude |-> 0, fed |-> 0]

\* _select_input_device() has not been called
NotSelected ==
    [ applied |-> FALSE, devices |-> <<>>, preferred |-> [type |-> "None"],
      default |-> [raises |-> FALSE, device |-> <<-1, -1>>],
      min_input_channels |-> 2, result |-> [kind |-> "none"] ]

\* nothing has been applied yet
InitOther ==
    /\ shaped = [Shaped([i \in Bands |-> 0]) EXCEPT !.applied = FALSE]
    /\ stats = NewStats(0)
    /\ selected = NotSelected
    /\ effects = NewEffects
    /\ tone = NoTone

InitThreads ==
    /\ stop_event = FALSE
    /\ shared_features = InitialFeatures
    /\ published = 0
    /\ written = [k \in FrameKeys |-> 0]
    /\ audio_pc = "check"
    /\ chunk = Silence
    /\ audio_closes = 0
    /\ led_pc = "check"
    /\ led = LedLocals
    /\ led_seq = [k \in DOMAIN LedLocals |-> 0]
    /\ pixels = "black"
    /\ main_pc = "get_spectrum"
    /\ main = MainLocals
    /\ main_seq = [k \in DOMAIN MainLocals |-> 0]

\* the caller's side before its first analyze() call
InitCaller ==
    /\ analyzer = NewAnalyzer
    /\ features = GatedFrame(0, NewAnalyzer.prev_spectrum)
    /\ trace = NoTrace
    /\ raised = FALSE
    /\ calls = 0
    /\ silent_run = 0
    /\ ingested = 0
    /\ finite_input = TRUE
    /\ last_chunk = Silence
    /\ steady = [ band |-> [name \in NameSet |-> 0], spectrum |-> [i \in Bands |-> 0] ]
    /\ repeats = 0
    /\ earlier = [ returned |-> GatedFrame(0, NewAnalyzer.prev_spectrum),
                   now |-> GatedFrame(0, NewAnalyzer.prev_spectrum) ]
    /\ passed = <<>>

Init ==
    /\ InitCaller
    /\ config = DefaultConfig
    /\ built = "yes"
    /\ InitThreads
    /\ InitOther
    /\ seen = <<>>

(***************************************************************************)
(* A single caller: features = analyzer.analyze(chunk), as the scripts and *)
(* the tests call it                                                       *)
(***************************************************************************)
\* every sample of the chunk, on every channel, is a finite number
FiniteChunk(c) ==
    \A i \in 1 .. Len(c.samples) :
        IF c.ndim = 2
        THEN IsFinite(c.samples[i][1]) /\ IsFinite(c.samples[i][2])
        ELSE IsFinite(c.samples[i])

\* the length of a band's run of non-gated calls with one energy, after a
\* call that found the energy new_energy
SteadyRun(run, new_path, new_energy, old_energy) ==
    IF new_path # "full" THEN 0
    ELSE IF trace.path = "full" /\ new_energy = old_energy
         THEN Min(run + 1, MaxSteadyRun)
         ELSE 1

\* the last n entries of a sequence, all of it when it is shorter
Latest(seq, n) ==
    IF Len(seq) <= n THEN seq ELSE SubSeq(seq, Len(seq) - n + 1, Len(seq))

\* one analyze() call and what it leaves behind
Step(c) ==
    \E r \in {Analyze(analyzer, c)} :
        /\ analyzer' = r.self
        /\ raised' = r.raised
        /\ features' = IF r.raised THEN features ELSE r.frame
        /\ trace' = IF r.raised THEN [r.trace EXCEPT !.aliased = trace.aliased]
                     ELSE r.trace
        \* the frame the caller got from the call before: a frame whose
        \* spectrum is self.prev_spectrum shows what lines 113 and 270-273
        \* wrote into that array
        /\ earlier' = [ returned |-> features,
                        now |-> IF trace.aliased
                                THEN [features EXCEPT !.spectrum = r.self.prev_spectrum]
                                ELSE features ]
        /\ silent_run' = IF r.trace.path = "gated"
                         THEN Min(silent_run + 1, MaxSilentRun) ELSE 0
        /\ ingested' = IF r.trace.path = "full"
                       THEN Min(ingested + r.trace.length, spectrum_n_fft)
                       ELSE ingested
        /\ finite_input' = (finite_input /\ FiniteChunk(c))
        /\ passed' = IF r.trace.path = "gated" THEN passed
                     ELSE Latest(passed \o Audio(c), spectrum_n_fft)
        /\ last_chunk' = c
        /\ steady' =
              [ band |-> [name \in NameSet |->
                            SteadyRun(steady.band[name], r.trace.path,
                                      r.trace.energy[name], trace.energy[name])],
                spectrum |-> [i \in Bands |->
                            SteadyRun(steady.spectrum[i], r.trace.path,
                                      r.trace.spectrum_bands[i], trace.spectrum_bands[i])] ]

Call(c) ==
    /\ ~raised
    /\ calls < MaxCalls
    /\ Step(c)
    /\ calls' = calls + 1
    /\ UNCHANGED <<repeats, config, built, thread_vars, other_vars>>

Next == \E c \in 1 .. Len(Chunks) : Call(Chunks[c])

Spec == Init /\ [][Next]_vars

(***************************************************************************)
(* A single caller whose input falls silent: at most MaxCalls chunks of    *)
(* any kind, then gated chunks only, without end                           *)
(***************************************************************************)
\* the chunks the noise gate closes on
IsGatedChunk(c) == Gated(Volume(Audio(c)))

\* the number of chunks before the silence
MaxSounds == 1

Sound(c) ==
    /\ silent_run = 0
    /\ calls < MaxSounds
    /\ Call(c)

Quietness(c) ==
    /\ IsGatedChunk(c)
    /\ ~raised
    /\ Step(c)
    /\ UNCHANGED <<calls, repeats, config, built, thread_vars, other_vars>>

SilenceNext ==
    \/ \E c \in 1 .. Len(Chunks) : Sound(Chunks[c])
    \/ \E c \in 1 .. Len(Chunks) : Quietness(Chunks[c])

SilenceSpec == Init /\ [][SilenceNext]_vars

(***************************************************************************)
(* A single caller whose input becomes steady: at most MaxChanges chunks   *)
(* of any kind, then the last of them again and again                      *)
(***************************************************************************)
\* the number of chunks up to and including the first of the steady ones
MaxChanges == 2

\* two chunks of one dtype and shape holding the same samples
SameChunk(a, b) ==
    /\ a.dtype = b.dtype
    /\ a.ndim = b.ndim
    /\ Len(a.samples) = Len(b.samples)
    /\ \A i \in 1 .. Len(a.samples) : a.samples[i] = b.samples[i]

Change(c) ==
    /\ repeats = 0
    /\ calls < MaxChanges
    /\ Call(c)

Repeat(c) ==
    /\ calls > 0
    /\ SameChunk(c, last_chunk)
    /\ ~raised
    /\ Step(c)
    /\ repeats' = Min(repeats + 1, MaxSteadyRun)
    /\ UNCHANGED <<calls, config, built, thread_vars, other_vars>>

SteadyNext ==
    \/ \E c \in 1 .. Len(Chunks) : Change(Chunks[c])
    \/ \E c \in 1 .. Len(Chunks) : Repeat(Chunks[c])

SteadySpec == Init /\ [][SteadyNext]_vars

(***************************************************************************)
(* A program started under some config.py: it builds its AudioAnalyzer and *)
(* then calls analyze()                                                    *)
(***************************************************************************)
\* the bass band with its edges swapped: low >= high
InvertedBands == [FREQ_BANDS EXCEPT ![2] = [lo |-> 250, hi |-> 90, name |-> "bass"]]
\* the sub_bass band below 0 Hz: outside the range of the FFT
OutOfRangeBands == [FREQ_BANDS EXCEPT ![1] = [lo |-> -90, hi |-> -20, name |-> "sub_bass"]]

\* config.py as it is, and with one value changed
Configs ==
    { DefaultConfig,
      [DefaultConfig EXCEPT !.SAMPLE_RATE = 0],
      [DefaultConfig EXCEPT !.FREQ_BANDS = InvertedBands],
      [DefaultConfig EXCEPT !.FREQ_BANDS = OutOfRangeBands],
      [DefaultConfig EXCEPT !.DECAY_TIME = 0],
      [DefaultConfig EXCEPT !.DECAY_TIME = -DECAY_TIME] }

\* the program before it has built its analyzer (the analyzer variable holds
\* no instance yet)
ConfigInit ==
    /\ InitCaller
    /\ config \in Configs
    /\ built = "no"
    /\ InitThreads
    /\ InitOther
    /\ seen = <<>>

\* analyzer = AudioAnalyzer()
BuildAnalyzer ==
    /\ built = "no"
    /\ \E r \in {Construct(config.SAMPLE_RATE, config.FREQ_BANDS)} :
          /\ built' = IF r.raised THEN "raised" ELSE "yes"
          /\ analyzer' = IF r.raised THEN analyzer ELSE r.self
    /\ UNCHANGED <<features, trace, raised, calls, silent_run, ingested, finite_input,
                   last_chunk, steady, repeats, config, earlier, passed, thread_vars,
                   other_vars>>

\* the number of analyze() calls explored under each config.py
MaxConfigCalls == 2

ConfigCall(c) ==
    /\ built = "yes"
    /\ calls < MaxConfigCalls
    /\ Call(c)

ConfigNext ==
    \/ BuildAnalyzer
    \/ \E c \in 1 .. Len(Chunks) : ConfigCall(Chunks[c])

ConfigSpec == ConfigInit /\ [][ConfigNext]_vars

(***************************************************************************)
(* Lines 164-246 on band energies of one's choosing: two raised bands over *)
(* a floor, in units of 0.0001                                             *)
(***************************************************************************)
RaisedLevels == {500}
OtherLevels == {200, 500, 8000}
FloorLevels == {0, 100}

BandCase(a, x, b, y, floor) ==
    [i \in Bands |-> IF i = a THEN x ELSE IF i = b THEN y ELSE floor]

Shape(raw) ==
    /\ ~shaped.applied
    /\ shaped' = Shaped(raw)
    /\ UNCHANGED <<analyzer_vars, thread_vars, stats, selected, effects, tone>>

BandsNext ==
    \E a \in Bands, b \in Bands, x \in RaisedLevels, y \in OtherLevels,
       floor \in FloorLevels : Shape(BandCase(a, x, b, y, floor))

BandsSpec == Init /\ [][BandsNext]_vars

(***************************************************************************)
(* test_audio.py main(): the statistics loop over a file                   *)
(***************************************************************************)
\* the longest file, in samples
MaxFileLength == 40
\* the value up to which chunk_count and the wraps are counted
MaxChunkCount == 12

\* audio_input.py lines 107-122, FileAudioInput.read_chunk(): the slice
\* bounds and the position it leaves
ReadChunk(length, position) ==
    LET wrapped == position + CHUNK_SIZE > length
        start == IF wrapped THEN 0 ELSE position
        end == start + CHUNK_SIZE
    IN  [ wrapped |-> wrapped,
          \* self.audio[start:end]
          size |-> Min(end, length) - Min(start, length),
          position |-> end ]

\* a file of silence: np.int16(chunk * 32767)
SilentChunk(size) == Int16([m \in 1 .. size |-> 0])

StatsInit ==
    /\ InitCaller
    /\ config = DefaultConfig
    /\ built = "yes"
    /\ InitThreads
    /\ seen = <<>>
    /\ shaped = [Shaped([i \in Bands |-> 0]) EXCEPT !.applied = FALSE]
    /\ selected = NotSelected
    /\ effects = NewEffects
    /\ tone = NoTone
    /\ \E length \in 0 .. MaxFileLength : stats = NewStats(length)

\* test_audio.py lines 46-67: one iteration of the while True loop
StatsIteration ==
    /\ stats.pc = "loop"
    /\ \E r \in {ReadChunk(stats.length, stats.position)} :
          /\ Step(SilentChunk(r.size))
          /\ stats' =
                IF stats.first_chunk
                THEN [stats EXCEPT !.position = r.position,
                                   !.wraps = Min(@ + (IF r.wrapped THEN 1 ELSE 0),
                                                 MaxChunkCount),
                                   !.initial_position = r.position,
                                   !.first_chunk = FALSE,
                                   !.chunk_count = Min(@ + 1, MaxChunkCount)]
                ELSE IF r.position < stats.initial_position
                THEN [stats EXCEPT !.position = r.position,
                                   !.wraps = Min(@ + (IF r.wrapped THEN 1 ELSE 0),
                                                 MaxChunkCount),
                                   !.looped = @ \/ r.wrapped,
                                   !.pc = "done"]
                ELSE [stats EXCEPT !.position = r.position,
                                   !.wraps = Min(@ + (IF r.wrapped THEN 1 ELSE 0),
                                                 MaxChunkCount),
                                   !.looped = @ \/ r.wrapped,
                                   !.chunk_count = Min(@ + 1, MaxChunkCount)]
    /\ UNCHANGED <<calls, repeats, config, built, thread_vars, shaped, selected,
                   effects, tone>>

StatsNext == StatsIteration

StatsSpec == StatsInit /\ [][StatsNext]_vars

(***************************************************************************)
(* audio_input.py: _select_input_device()                                  *)
(***************************************************************************)
\* the longest device list
MaxDevices == 2
\* a float preferred is kept in tenths
FloatOne == 10

\* a str is a sequence of one-character strings
Letters ==
    [ U |-> "u", S |-> "s", B |-> "b", M |-> "m", I |-> "i", C |-> "c", X |-> "x" ]

\* str.lower()
Lower(str) ==
    [m \in 1 .. Len(str) |-> IF str[m] \in DOMAIN Letters THEN Letters[str[m]] ELSE str[m]]

\* str.strip()
RECURSIVE Strip(_)
Strip(str) ==
    IF str = <<>> THEN str
    ELSE IF Head(str) = " " THEN Strip(Tail(str))
    ELSE IF str[Len(str)] = " " THEN Strip(SubSeq(str, 1, Len(str) - 1))
    ELSE str

\* pattern in name
In(pattern, name) ==
    \E m \in 0 .. Len(name) - Len(pattern) :
        SubSeq(name, m + 1, m + Len(pattern)) = pattern

\* int(preferred): truncation towards zero
IntOf(preferred) ==
    IF preferred.type = "int" THEN preferred.value
    ELSE IF preferred.value >= 0 THEN preferred.value \div FloatOne
    ELSE -((-preferred.value) \div FloatOne)

\* sd.query_devices(idx): the device, or PortAudioError for an index that is
\* no device
QueryDevice(devices, idx) ==
    IF idx \in 1 - 1 .. Len(devices) - 1
    THEN [raises |-> FALSE, dev |-> devices[idx + 1]]
    ELSE [raises |-> TRUE]

\* lines 43-63: the default input device and the first suitable device
SelectDefault(devices, default, min_input_channels) ==
    LET default_input_idx == IF default.raises THEN -1 ELSE default.device[1]
        dev == QueryDevice(devices, default_input_idx)
        suitable == {i \in 0 .. Len(devices) - 1 :
                        devices[i + 1].max_input_channels >= min_input_channels}
    IN  IF ~default.raises /\ default_input_idx >= 0 /\ dev.raises
        THEN [kind |-> "raise", exception |-> "PortAudioError"]
        ELSE IF ~default.raises /\ default_input_idx >= 0
                /\ dev.dev.max_input_channels >= min_input_channels
        THEN [kind |-> "return", idx |-> default_input_idx, stage |-> 3]
        ELSE IF suitable # {}
        THEN [kind |-> "return", stage |-> 4,
              idx |-> CHOOSE i \in suitable : \A j \in suitable : i <= j]
        ELSE [kind |-> "raise", exception |-> "RuntimeError"]

\* lines 30-63: the name pattern and what follows it
SelectPattern(devices, preferred, default, min_input_channels) ==
    LET pattern == Lower(preferred.value)
        matches == {i \in 0 .. Len(devices) - 1 :
                       /\ In(pattern, Lower(devices[i + 1].name))
                       /\ devices[i + 1].max_input_channels >= min_input_channels}
    IN  IF preferred.type = "str" /\ Strip(preferred.value) # <<>> /\ matches # {}
        THEN [kind |-> "return", stage |-> 2,
              idx |-> CHOOSE i \in matches : \A j \in matches : i <= j]
        ELSE SelectDefault(devices, default, min_input_channels)

\* lines 7-71
_select_input_device(devices, preferred, default, min_input_channels) ==
    IF preferred.type \in {"int", "float"}
    THEN LET idx == IntOf(preferred)
             dev == QueryDevice(devices, idx)
         IN  IF dev.raises THEN [kind |-> "raise", exception |-> "PortAudioError"]
             ELSE IF dev.dev.max_input_channels >= min_input_channels
             THEN [kind |-> "return", idx |-> idx, stage |-> 1]
             ELSE SelectDefault(devices, default, min_input_channels)
    ELSE SelectPattern(devices, preferred, default, min_input_channels)

\* the devices sd.query_devices() can list
DeviceNames == { <<"U", "s", "b">>, <<"M", "i", "c">> }
DeviceKinds == [name : DeviceNames, max_input_channels : {0, 1, 2}]
DeviceLists == UNION {[1 .. n -> DeviceKinds] : n \in 0 .. MaxDevices}

\* the values of the device argument
PreferredValues ==
    {[type |-> "None"]}
    \cup [type : {"int"}, value : -1 .. MaxDevices]
    \cup [type : {"float"}, value : {-5, 15}]
    \cup [type : {"str"},
          value : { <<>>, <<" ">>, <<"u", "S">>, <<"I", "C">>, <<"s", "b", "x">> }]

\* sd.default.device: the pair (input, output) of device indices, -1 for no
\* default, or an exception
Defaults(devices) ==
    {[raises |-> TRUE, device |-> <<-1, -1>>]}
    \cup {[raises |-> FALSE, device |-> <<i, -1>>] : i \in -1 .. Len(devices) - 1}

Select(devices, preferred, default, min_input_channels) ==
    /\ ~selected.applied
    /\ selected' =
          [ applied |-> TRUE, devices |-> devices, preferred |-> preferred,
            default |-> default, min_input_channels |-> min_input_channels,
            result |-> _select_input_device(devices, preferred, default,
                                            min_input_channels) ]
    /\ UNCHANGED <<analyzer_vars, thread_vars, shaped, stats, effects, tone>>

DeviceNext ==
    \E devices \in DeviceLists, preferred \in PreferredValues,
       min_input_channels \in {1, 2} :
        \E default \in Defaults(devices) :
            Select(devices, preferred, default, min_input_channels)

DeviceSpec == Init /\ [][DeviceNext]_vars

(***************************************************************************)
(* effects.py: LEDEffects.frequency_spectrum()                             *)
(***************************************************************************)
MIN_BRIGHTNESS == 0
\* the frames that are not silent, before the silence
MaxLoudFrames == 3
\* frequency_spectrum() calls on one frame
MaxRendersPerFrame == 1
\* the value up to which the renders of zero-envelope frames are counted
MaxZeroRun == 20

\* envelope ** BRIGHTNESS_EXPONENT, the exponent being 1.5
PowBrightness(envelope) ==
    IF IsFinite(envelope) /\ envelope >= 0
    THEN (envelope * ISqrt(envelope * One)) \div One
    ELSE envelope

\* lines 43-62, in thousandths of a degree
get_band_hue(band_index) ==
    IF band_index < 16 THEN (band_index * 30 * One) \div 16
    ELSE 240 * One - ((band_index - 16) * 30 * One) \div 16

\* prev += (target - prev) * (up if target > prev else down), the two
\* factors in hundredths
Follow(prev, target, up, down) ==
    FAdd(prev, FScale(FSub(target, prev), IF FGt(target, prev) THEN up ELSE down, 100))

\* lines 124-222: the class-level state after the call and what happened to
\* the strips
frequency_spectrum(self, frame) ==
    LET spectrum == IF Get(frame, "spectrum", <<>>) = <<>> THEN [i \in Bands |-> 0]
                    ELSE frame.spectrum
        envelope == Get(frame, "envelope", 0)
        dominant_band == Get(frame, "dominant_band", -1)
        tonalness == Get(frame, "tonalness", 0)
        bass_energy == BandMean(spectrum, 0 .. 9)
        mid_energy == BandMean(spectrum, 10 .. 21)
        treble_energy == BandMean(spectrum, 22 .. 31)
        core_total == FAdd(FAdd(bass_energy, mid_energy), One \div 1000)
        mid_weight == FRatio(mid_energy, core_total)
        blended_hue == FScale(mid_weight, 30, 1)
        target_hue == IF dominant_band >= 0 /\ FGt(tonalness, (15 * One) \div 100)
                      THEN get_band_hue(dominant_band) ELSE blended_hue
        target_brightness == IF FLt(envelope, One \div 100) THEN 0
                             ELSE PyMax(MIN_BRIGHTNESS, PowBrightness(envelope))
        hue == Follow(self._prev_hue, target_hue, 90, 50)
        brightness ==
            IF FGt(target_brightness, self._prev_brightness)
            THEN FAdd(self._prev_brightness,
                      FScale(FSub(target_brightness, self._prev_brightness), 9, 10))
            ELSE IF FLt(target_brightness, One \div 100)
            THEN FScale(self._prev_brightness, 7, 10)
            ELSE FAdd(self._prev_brightness,
                      FScale(FSub(target_brightness, self._prev_brightness), 5, 10))
        edge == Follow(self._prev_edge, treble_energy, 95, 8)
        bass == Follow(self._prev_bass, bass_energy, 95, 10)
        \* line 191, colorsys.hsv_to_rgb: int(h * 6.0); lines 196 and 201: int()
        error == ~IsFinite(hue) \/ ~IsFinite(edge) \/ ~IsFinite(bass)
    IN  [ self EXCEPT !._prev_hue = hue, !._prev_brightness = brightness,
                      !._prev_edge = edge, !._prev_bass = bass,
                      !.raised = error,
                      !.strips = IF error THEN @
                                 ELSE IF FLt(brightness, (5 * One) \div 1000)
                                 THEN "black" ELSE "frame" ]

\* the chunks before the silence and the chunks of the silence
LoudChunks == {BassTone, NaNChunk}
SilentChunks == {Silence}

\* the frame in hand has been drawn
Rendered == effects.rendered > 0 \/ trace.path = "none"

LoudFrame(c) ==
    /\ Rendered
    /\ silent_run = 0
    /\ calls < MaxLoudFrames
    /\ ~raised
    /\ Step(c)
    /\ calls' = calls + 1
    /\ effects' = [effects EXCEPT !.rendered = 0]
    /\ UNCHANGED <<repeats, config, built, thread_vars, shaped, stats, selected,
                   tone>>

SilentFrame(c) ==
    /\ Rendered
    /\ IsGatedChunk(c)
    /\ ~raised
    /\ Step(c)
    /\ effects' = [effects EXCEPT !.rendered = 0]
    /\ UNCHANGED <<calls, repeats, config, built, thread_vars, shaped, stats, selected,
                   tone>>

\* main.py line 99: LEDEffects.frequency_spectrum(strips, shared_features)
\* with the latest frame
Render ==
    /\ effects.rendered < MaxRendersPerFrame
    /\ \E r \in {frequency_spectrum(effects, features)} :
          effects' =
            [ r EXCEPT !.calls = Min(@ + 1, MaxZeroRun),
                       !.rendered = @ + 1,
                       !.envelope = features.envelope,
                       !.gated = trace.path = "gated",
                       !.before = effects._prev_brightness,
                       !.zero_run = IF trace.path = "gated" /\ features.envelope = 0
                                    THEN Min(@ + 1, MaxZeroRun) ELSE 0 ]
    /\ UNCHANGED <<analyzer_vars, thread_vars, shaped, stats, selected, tone>>

DarkNext ==
    \/ \E c \in LoudChunks : LoudFrame(c)
    \/ \E c \in SilentChunks : SilentFrame(c)
    \/ Render

DarkSpec == Init /\ [][DarkNext]_vars

(***************************************************************************)
(* tests/test_40hz_isolation.py: a sine tone fed chunk by chunk            *)
(***************************************************************************)
\* the chunks of one tone
MaxToneChunks == 8

\* sin(2 * pi * n / period) for n = 0 .. period - 1, in thousandths
SineTable ==
    [ p \in {4, 5, 6, 8, 10, 12, 16} |->
        CASE p = 4  -> << 0, 1000, 0, -1000 >>
          [] p = 5  -> << 0, 951, 588, -588, -951 >>
          [] p = 6  -> << 0, 866, 866, 0, -866, -866 >>
          [] p = 8  -> << 0, 707, 1000, 707, 0, -707, -1000, -707 >>
          [] p = 10 -> << 0, 588, 951, 951, 588, 0, -588, -951, -951, -588 >>
          [] p = 12 -> << 0, 500, 866, 1000, 866, 500, 0, -500, -866, -1000, -866, -500 >>
          [] p = 16 -> << 0, 383, 707, 924, 1000, 924, 707, 383,
                          0, -383, -707, -924, -1000, -924, -707, -383 >> ]

\* the tones: SAMPLE_RATE / period is 93.75, 75, 62.5, 46.875, 37.5, 31.25
\* and 23.4375 Hz
TonePeriods == DOMAIN SineTable
\* the amplitude after the gain, in hundredths
ToneAmplitudes == {20, 50, 80}

\* freq_hz, in 1/64 Hz
ToneFreq(period) == (SAMPLE_RATE * FreqOne) \div period

\* lines 12-15, generate_sine_tone(): sample n of the tone, rounded
ToneSample(period, amplitude, n) ==
    LET v == amplitude * SineTable[period][(n % period) + 1]
    IN  IF v >= 0 THEN (v + 500) \div 1000 ELSE -((500 - v) \div 1000)

\* lines 30-31: chunk = tone[i:i + CHUNK_SIZE], the k-th chunk
ToneChunk(period, amplitude, k) ==
    Float32([m \in 1 .. CHUNK_SIZE |->
                ToneSample(period, amplitude, k * CHUNK_SIZE + m - 1)])

ToneInit ==
    /\ InitCaller
    /\ config = DefaultConfig
    /\ built = "yes"
    /\ InitThreads
    /\ seen = <<>>
    /\ shaped = [Shaped([i \in Bands |-> 0]) EXCEPT !.applied = FALSE]
    /\ stats = NewStats(0)
    /\ selected = NotSelected
    /\ effects = NewEffects
    /\ \E period \in TonePeriods, amplitude \in ToneAmplitudes :
          tone = [period |-> period, amplitude |-> amplitude, fed |-> 0]

\* lines 30-34: one chunk of the tone through analyze()
FeedTone ==
    /\ tone.fed < MaxToneChunks
    /\ ~raised
    /\ Step(ToneChunk(tone.period, tone.amplitude, tone.fed))
    /\ tone' = [tone EXCEPT !.fed = @ + 1]
    /\ UNCHANGED <<calls, repeats, config, built, thread_vars, shaped, stats, selected,
                   effects>>

ToneNext == FeedTone

ToneSpec == ToneInit /\ [][ToneNext]_vars

(***************************************************************************)
(* main.py: the audio thread, the LED thread and the main thread           *)
(***************************************************************************)
\* the number of chunks the audio source delivers
MaxFrames == 2

\* what read_chunk() may return: int16 chunks of CHUNK_SIZE samples
SourceChunks == << Silence, Click >>

\* daemon threads run until the main thread leaves main()
Running == main_pc # "exited"

\* line 68: while not stop_event.is_set()
AudioCheck ==
    /\ Running
    /\ audio_pc = "check"
    /\ audio_pc' = IF stop_event THEN "finally" ELSE "read"
    /\ UNCHANGED <<analyzer_vars, other_vars, stop_event, shared_features, published, written, chunk,
                   audio_closes, seen, led_pc, led, led_seq, pixels, main_pc, main, main_seq>>

\* line 70: chunk = audio.read_chunk()
AudioRead(c) ==
    /\ Running
    /\ audio_pc = "read"
    /\ calls < MaxFrames
    /\ chunk' = c
    /\ audio_pc' = "analyze"
    /\ UNCHANGED <<analyzer_vars, other_vars, stop_event, shared_features, published, written,
                   audio_closes, seen, led_pc, led, led_seq, pixels, main_pc, main, main_seq>>

\* line 70, audio_input.py line 159: the stream read raises
AudioReadRaises ==
    /\ Running
    /\ audio_pc = "read"
    /\ audio_pc' = "except"
    /\ UNCHANGED <<analyzer_vars, other_vars, stop_event, shared_features, published, written, chunk,
                   audio_closes, seen, led_pc, led, led_seq, pixels, main_pc, main, main_seq>>

\* line 73: features = analyzer.analyze(chunk)
AudioAnalyze ==
    /\ Running
    /\ audio_pc = "analyze"
    /\ Step(chunk)
    /\ calls' = calls + 1
    /\ audio_pc' = IF raised' THEN "except" ELSE "update"
    /\ UNCHANGED <<repeats, config, built, other_vars, stop_event, shared_features,
                   published, written, chunk,
                   audio_closes, seen, led_pc, led, led_seq, pixels, main_pc, main, main_seq>>

\* an update that, after the first, puts the dict of main(), lines 146-160,
\* back
AudioUpdateOlder ==
    /\ Running
    /\ audio_pc = "update"
    /\ shared_features' = IF published = 0 THEN Update(shared_features, features)
                           ELSE InitialFeatures
    /\ published' = published + 1
    /\ written' = [k \in FrameKeys |-> IF published = 0 THEN 1 ELSE 0]
    /\ audio_pc' = "check"
    /\ UNCHANGED <<analyzer_vars, other_vars, stop_event, chunk,
                   audio_closes, seen, led_pc, led, led_seq, pixels, main_pc, main, main_seq>>

\* line 76: shared_features.update(features)
AudioUpdate ==
    /\ Running
    /\ audio_pc = "update"
    /\ shared_features' = Update(shared_features, features)
    /\ published' = published + 1
    /\ written' = [k \in FrameKeys |-> IF k \in DOMAIN features
                                        THEN published + 1 ELSE written[k]]
    /\ audio_pc' = "check"
    /\ UNCHANGED <<analyzer_vars, other_vars, stop_event, chunk,
                   audio_closes, seen, led_pc, led, led_seq, pixels, main_pc, main, main_seq>>

\* lines 79-80: except Exception: print
AudioExcept ==
    /\ Running
    /\ audio_pc = "except"
    /\ audio_pc' = "finally"
    /\ UNCHANGED <<analyzer_vars, other_vars, stop_event, shared_features, published, written, chunk,
                   audio_closes, seen, led_pc, led, led_seq, pixels, main_pc, main, main_seq>>

\* lines 81-82: finally: audio.close()
AudioClose ==
    /\ Running
    /\ audio_pc = "finally"
    /\ audio_closes' = audio_closes + 1
    /\ audio_pc' = "done"
    /\ UNCHANGED <<analyzer_vars, other_vars, seen, stop_event, shared_features, published, written, chunk,
                   led_pc, led, led_seq, pixels, main_pc, main, main_seq>>

\* a loop test that does not look at stop_event
LedCheckIgnoringStop ==
    /\ Running
    /\ led_pc = "check"
    /\ led_pc' = "get_spectrum"
    /\ UNCHANGED <<analyzer_vars, other_vars, stop_event, shared_features, published, written, audio_pc,
                   chunk, audio_closes, seen, led, led_seq, pixels, main_pc, main, main_seq>>

\* line 97: while not stop_event.is_set()
LedCheck ==
    /\ Running
    /\ led_pc = "check"
    /\ led_pc' = IF stop_event THEN "finally" ELSE "get_spectrum"
    /\ UNCHANGED <<analyzer_vars, other_vars, stop_event, shared_features, published, written, audio_pc,
                   chunk, audio_closes, seen, led, led_seq, pixels, main_pc, main, main_seq>>

\* effects.py, lines 124-127: one features.get(key, default)
LedGet(pc, key, default, next) ==
    /\ Running
    /\ led_pc = pc
    /\ led' = [led EXCEPT ![key] = Get(shared_features, key, default)]
    /\ led_seq' = [led_seq EXCEPT ![key] = written[key]]
    /\ seen' = IF key \in DOMAIN seen THEN [seen EXCEPT ![key] = written[key]]
                ELSE seen
    /\ led_pc' = next
    /\ UNCHANGED <<analyzer_vars, other_vars, stop_event, shared_features, published, written, audio_pc,
                   chunk, audio_closes, pixels, main_pc, main, main_seq>>

LedGetSpectrum == LedGet("get_spectrum", "spectrum", <<>>, "get_envelope")
LedGetEnvelope == LedGet("get_envelope", "envelope", 0, "get_dominant_band")
LedGetDominantBand == LedGet("get_dominant_band", "dominant_band", -1, "get_tonalness")
LedGetTonalness == LedGet("get_tonalness", "tonalness", 0, "render")

\* effects.py from line 129 and main.py lines 99-110: the strips are drawn
\* from the four values and shown, frequency_spectrum's locals go out of
\* scope, and the thread sleeps
LedRender ==
    /\ Running
    /\ led_pc = "render"
    /\ pixels' = "frame"
    /\ led' = LedLocals
    /\ led_seq' = [k \in DOMAIN LedLocals |-> 0]
    /\ led_pc' = "check"
    /\ UNCHANGED <<analyzer_vars, other_vars, stop_event, shared_features, published, written, audio_pc,
                   chunk, audio_closes, seen, main_pc, main, main_seq>>

\* lines 99-102: frequency_spectrum() or pixels.show() raises
LedRenderRaises ==
    /\ Running
    /\ led_pc = "render"
    /\ led' = LedLocals
    /\ led_seq' = [k \in DOMAIN LedLocals |-> 0]
    /\ led_pc' = "except"
    /\ UNCHANGED <<analyzer_vars, other_vars, stop_event, shared_features, published, written, audio_pc,
                   chunk, audio_closes, seen, pixels, main_pc, main, main_seq>>

\* lines 110-113: except Exception: print, traceback.print_exc()
LedExcept ==
    /\ Running
    /\ led_pc = "except"
    /\ led_pc' = "finally"
    /\ UNCHANGED <<analyzer_vars, other_vars, stop_event, shared_features, published, written, audio_pc,
                   chunk, audio_closes, seen, led, led_seq, pixels, main_pc, main, main_seq>>

\* the finally block left without touching the strips
LedCleanupSkipped ==
    /\ Running
    /\ led_pc = "finally"
    /\ led_pc' = "done"
    /\ UNCHANGED <<analyzer_vars, other_vars, stop_event, shared_features, published, written, audio_pc,
                   chunk, audio_closes, seen, led, led_seq, pixels, main_pc, main, main_seq>>

\* lines 114-117: finally: pixels.fill((0, 0, 0)); pixels.show()
LedCleanup ==
    /\ Running
    /\ led_pc = "finally"
    /\ pixels' = "black"
    /\ led_pc' = "done"
    /\ UNCHANGED <<analyzer_vars, other_vars, stop_event, shared_features, published, written, audio_pc,
                   chunk, audio_closes, seen, led, led_seq, main_pc, main, main_seq>>

\* main(), lines 189-197: one shared_features.get(key, default)
MainGet(pc, key, default, next) ==
    /\ main_pc = pc
    /\ main' = [main EXCEPT ![key] = Get(shared_features, key, default)]
    /\ main_seq' = [main_seq EXCEPT ![key] = written[key]]
    /\ main_pc' = next
    /\ UNCHANGED <<analyzer_vars, other_vars, stop_event, shared_features, published, written, audio_pc,
                   chunk, audio_closes, seen, led_pc, led, led_seq, pixels>>

MainGetSpectrum == MainGet("get_spectrum", "spectrum", <<>>, "get_dominant_freq")
MainGetDominantFreq == MainGet("get_dominant_freq", "dominant_freq", 0, "get_tonalness")
MainGetTonalness == MainGet("get_tonalness", "tonalness", 0, "display")

\* lines 199-306: the status line is printed from the three values, which
\* the next pass overwrites, and the thread sleeps
MainDisplay ==
    /\ main_pc = "display"
    /\ main' = MainLocals
    /\ main_seq' = [k \in DOMAIN MainLocals |-> 0]
    /\ main_pc' = "get_spectrum"
    /\ UNCHANGED <<analyzer_vars, other_vars, stop_event, shared_features, published, written, audio_pc,
                   chunk, audio_closes, seen, led_pc, led, led_seq, pixels>>

MainLoop == {"get_spectrum", "get_dominant_freq", "get_tonalness", "display"}

\* lines 308-310: KeyboardInterrupt anywhere in the loop; stop_event.set().
\* The values read in the interrupted pass are never used.
MainInterrupt ==
    /\ main_pc \in MainLoop
    /\ stop_event' = TRUE
    /\ main' = MainLocals
    /\ main_seq' = [k \in DOMAIN MainLocals |-> 0]
    /\ main_pc' = "join_audio"
    /\ UNCHANGED <<analyzer_vars, other_vars, shared_features, published, written, audio_pc,
                   chunk, audio_closes, seen, led_pc, led, led_seq, pixels>>

\* line 313: audio_t.join(timeout=2.0): the thread has ended, or 2 s have passed
MainJoinAudio ==
    /\ main_pc = "join_audio"
    /\ main_pc' = "join_led"
    /\ UNCHANGED <<analyzer_vars, other_vars, stop_event, shared_features, published, written, audio_pc,
                   chunk, audio_closes, seen, led_pc, led, led_seq, pixels, main, main_seq>>

\* lines 314-317: led_t.join(timeout=2.0), then main() returns
MainJoinLed ==
    /\ main_pc = "join_led"
    /\ main_pc' = "exited"
    /\ UNCHANGED <<analyzer_vars, other_vars, stop_event, shared_features, published, written, audio_pc,
                   chunk, audio_closes, seen, led_pc, led, led_seq, pixels, main, main_seq>>

ThreadNext ==
    \/ AudioCheck
    \/ \E c \in 1 .. Len(SourceChunks) : AudioRead(SourceChunks[c])
    \/ AudioReadRaises
    \/ AudioAnalyze
    \/ AudioUpdate
    \/ AudioExcept
    \/ AudioClose
    \/ LedCheck
    \/ LedGetSpectrum
    \/ LedGetEnvelope
    \/ LedGetDominantBand
    \/ LedGetTonalness
    \/ LedRender
    \/ LedRenderRaises
    \/ LedExcept
    \/ LedCleanup
    \/ MainGetSpectrum
    \/ MainGetDominantFreq
    \/ MainGetTonalness
    \/ MainDisplay
    \/ MainInterrupt
    \/ MainJoinAudio
    \/ MainJoinLed

ThreadSpec == Init /\ [][ThreadNext]_vars

(***************************************************************************)
(* The audio thread and the LED thread, with the frame every read of       *)
(* frequency_spectrum saw kept from one pass to the next                   *)
(***************************************************************************)
FreshInit ==
    /\ InitCaller
    /\ config = DefaultConfig
    /\ built = "yes"
    /\ InitThreads
    /\ InitOther
    /\ seen = [k \in DOMAIN LedLocals |-> 0]

FreshNext ==
    \/ AudioCheck
    \/ \E c \in 1 .. Len(SourceChunks) : AudioRead(SourceChunks[c])
    \/ AudioReadRaises
    \/ AudioAnalyze
    \/ AudioUpdate
    \/ AudioExcept
    \/ AudioClose
    \/ LedCheck
    \/ LedGetSpectrum
    \/ LedGetEnvelope
    \/ LedGetDominantBand
    \/ LedGetTonalness
    \/ LedRender
    \/ LedRenderRaises
    \/ LedExcept
    \/ LedCleanup
    \/ MainInterrupt
    \/ MainJoinAudio
    \/ MainJoinLed

FreshSpec == FreshInit /\ [][FreshNext]_vars

(***************************************************************************)
(* Properties                                                              *)
(***************************************************************************)
\* the last analyze() call returned a frame
Returned == trace.path \in {"gated", "full"}

\* a float in [0, 1]
InUnit(x) == x # NaN /\ 0 <= x /\ x <= One

NormalizedFields ==
    { "bass", "mid", "high", "sub_bass", "low_mid", "mid_high", "treble",
      "centroid", "bandwidth", "transient", "envelope", "tonalness" }

BandFields == { "bass", "mid", "high", "sub_bass", "low_mid", "mid_high", "treble" }

\* C1: after any sequence of analyze() calls on chunks of finite samples,
\* every normalized field of the returned frame (the seven bands, centroid,
\* bandwidth, transient, envelope, tonalness and the 32 spectrum entries)
\* lies in [0, 1].
C1_NormalizedFieldsInUnitRange ==
    (finite_input /\ Returned) =>
        /\ \A k \in NormalizedFields : InUnit(features[k])
        /\ \A i \in Bands : InUnit(features.spectrum[i])

\* C2: whenever the RMS of the gained chunk is below NOISE_GATE_THRESHOLD,
\* the returned frame has volume, transient, the seven bands, centroid,
\* bandwidth, tonalness and dominant_freq at 0 and dominant_band at -1,
\* whatever state the analyzer was in.
C2_GatedFrameIsZero ==
    (trace.path # "none" /\ FLt(trace.volume, NOISE_GATE_THRESHOLD)) =>
        /\ Returned
        /\ features.volume = 0
        /\ features.transient = 0
        /\ \A k \in BandFields : features[k] = 0
        /\ features.centroid = 0
        /\ features.bandwidth = 0
        /\ features.tonalness = 0
        /\ features.dominant_freq = 0
        /\ features.dominant_band = -1

\* an empty chunk gated while the analyzer still carries the peaks, the
\* energy and the envelope of an earlier loud chunk
C2_Witness ==
    /\ trace.path = "gated"
    /\ trace.length = 0
    /\ FGt(analyzer.prev_raw_volume, 0)
    /\ FGt(analyzer.envelope_value, 0)
    /\ \E name \in NameSet : FGt(analyzer.band_max[name], EnergyOne \div 10)

\* C3: in any call whose target (the max of the frame's bass, mid and high)
\* is strictly greater than the stored envelope, the envelope returned by
\* that call equals the target.
C3_AttackIsInstantaneous ==
    LET target == PyMax3(features.bass, features.mid, features.high)
    IN  (trace.path = "full" /\ FGt(target, trace.env_before)) =>
            features.envelope = target

\* an attack from an envelope that had decayed but not reached 0
C3_Witness ==
    /\ trace.path = "full"
    /\ FGt(trace.env_before, 0)
    /\ FGt(PyMax3(features.bass, features.mid, features.high), trace.env_before)
    /\ features.envelope > trace.env_before

RECURSIVE DecaySteps(_)
\* the number of times a value in thousandths is multiplied by 0.85 before it
\* falls below 0.01
DecaySteps(x) ==
    IF (x * 85) \div 100 < One \div 100 THEN 1 ELSE 1 + DecaySteps((x * 85) \div 100)

\* the gated calls after which an envelope of at most 1 has reached 0
SilentCallsToZero == DecaySteps(One)

\* C4: on consecutive gated calls starting from an envelope > 0, each call
\* returns a strictly smaller envelope, the envelope is exactly 0 after
\* SilentCallsToZero calls at the latest, and once 0 it stays 0 while the
\* silence lasts.
C4_SilenceDecaysEnvelopeToZero ==
    (trace.path = "gated") =>
        /\ features.envelope = analyzer.envelope_value
        /\ FGt(trace.env_before, 0) =>
              /\ features.envelope >= 0
              /\ features.envelope < trace.env_before
        /\ trace.env_before = 0 => features.envelope = 0
        /\ silent_run >= SilentCallsToZero => features.envelope = 0

\* the gated call on which a positive envelope becomes exactly 0, after a run
\* of gated calls on which it only shrank
C4_Witness ==
    /\ trace.path = "gated"
    /\ silent_run > 2
    /\ FGt(trace.env_before, 0)
    /\ features.envelope = 0

\* the two readers' passes: the values in hand when the strips are drawn and
\* when the status line is printed
LedPassDone == led_pc = "render"
MainPassDone == main_pc = "display"

\* the values were not written by two different updates (0: the value was in
\* the dict, or missing from it, before the first update)
OneFrame(seq) ==
    \A j, k \in DOMAIN seq : (seq[j] > 0 /\ seq[k] > 0) => seq[j] = seq[k]

\* C5: in one render pass of the LED thread and one display pass of the main
\* thread, the values read from shared_features all belong to one analyze()
\* result, never to two.
C5_ReadersSeeOneFrame ==
    /\ LedPassDone => OneFrame(led_seq)
    /\ MainPassDone => OneFrame(main_seq)

\* C6: analyze() never raises, whatever the length of the chunk and whatever
\* its samples.
C6_AnalyzeNeverRaises == ~raised

FrameFields ==
    { "volume", "bass", "mid", "high", "sub_bass", "low_mid", "mid_high", "treble",
      "centroid", "bandwidth", "transient", "envelope", "dominant_band",
      "dominant_freq", "tonalness" }

\* C7: no NaN or Inf appears in a frame returned by analyze(), and none is
\* stored in the state the analyzer carries to the next call (running peaks,
\* previous spectrum, previous total energy, envelope).
C7_NoNaNOrInf ==
    /\ \A k \in FrameFields : IsFinite(features[k])
    /\ \A i \in Bands : IsFinite(features.spectrum[i])
    /\ \A name \in NameSet : IsFinite(analyzer.band_max[name])
    /\ \A i \in Bands : IsFinite(analyzer.spectrum_max[i])
    /\ \A i \in Bands : IsFinite(analyzer.prev_spectrum[i])
    /\ IsFinite(analyzer.prev_raw_volume)
    /\ IsFinite(analyzer.envelope_value)

\* C8: an exception raised by read_chunk() or analyze() for one chunk does
\* not end the capture loop: the audio thread leaves its loop only when
\* stop_event is set.
C8_CaptureLoopSurvivesFailure ==
    audio_pc \in {"except", "finally", "done"} => stop_event

\* C9: while fewer than spectrum_n_fft samples have been stored in the
\* spectrum buffer, a non-gated call returns a placeholder frame: the spectrum
\* entries, dominant_freq and tonalness are 0, dominant_band is -1, and volume
\* is the RMS of the chunk.
C9_PlaceholderDuringWarmUp ==
    (trace.path = "full" /\ ingested < spectrum_n_fft) =>
        /\ \A i \in Bands : features.spectrum[i] = 0
        /\ features.dominant_band = -1
        /\ features.dominant_freq = 0
        /\ features.tonalness = 0
        /\ features.volume = trace.volume

\* energy / max(reference, 0.01), clamped to [0, 1]
NormalizedBy(energy, reference) ==
    NpClip(FRatio(energy, NpMaximum(reference, EnergyOne \div 100)), 0, One)

\* the largest of the 32 running spectrum peaks
LargestSpectrumPeak ==
    IF \E i \in Bands : IsNaN(analyzer.spectrum_max[i]) THEN NaN
    ELSE CHOOSE m \in { analyzer.spectrum_max[i] : i \in Bands } :
            \A i \in Bands : analyzer.spectrum_max[i] <= m

CurrentEnergy(name) == IF trace.path = "gated" THEN 0 ELSE trace.energy[name]
CurrentSpectrumEnergy(i) == IF trace.path = "gated" THEN 0 ELSE trace.spectrum_bands[i]

\* C11: after every analyze() call, gated or not, every legacy-band peak and
\* every spectrum-band peak equals max(current energy, previous peak * decay
\* rate), the current energy being 0 on a gated call.
C11_PeaksDecayOnEveryCall ==
    Returned =>
        /\ \A name \in NameSet :
              analyzer.band_max[name] =
                  PyMax(CurrentEnergy(name),
                        FScale(trace.before.band_max[name], decay_rate, 100))
        /\ \A i \in Bands :
              analyzer.spectrum_max[i] =
                  NpMaximum(CurrentSpectrumEnergy(i),
                            FScale(trace.before.spectrum_max[i], spectrum_decay_rate, 100))

\* the total legacy-band energy of the last call, 0 on a gated call
CurrentTotalEnergy == IF trace.path = "gated" THEN 0 ELSE trace.total_energy

\* C12: prev_raw_volume, the previous total band energy the transient is
\* measured against, is updated on every analyze() call regardless of the
\* gate: after each call it holds that call's total energy, which is 0 on a
\* gated call.
C12_PreviousTotalUpdatedOnEveryCall ==
    Returned => analyzer.prev_raw_volume = CurrentTotalEnergy

\* the total spectrum-band energy of the last call, before normalization
TotalSpectrumEnergy == SumTo(trace.spectrum_bands, NUM_SPECTRUM_BANDS)

\* C13: on a non-gated call with total spectrum-band energy > 0,
\* dominant_band is the (first) index of the largest pre-normalization band
\* energy, tonalness is that band's energy divided by the total, and
\* dominant_freq is the midpoint of that band's two edges; when the total is
\* not positive the frame has dominant_band = -1, dominant_freq = 0 and
\* tonalness = 0.
C13_DominanceFromRawEnergy ==
    (trace.path = "full") =>
        IF FGt(TotalSpectrumEnergy, 0)
        THEN LET d == features.dominant_band
             IN  /\ d \in Bands
                 /\ \A i \in Bands : trace.spectrum_bands[i] <= trace.spectrum_bands[d]
                 /\ \A i \in Bands : i < d => trace.spectrum_bands[i] < trace.spectrum_bands[d]
                 /\ features.tonalness = FRatio(trace.spectrum_bands[d], TotalSpectrumEnergy)
                 /\ features.dominant_freq =
                        (SPECTRUM_FREQS(d) + SPECTRUM_FREQS(d + 1)) \div 2
        ELSE /\ features.dominant_band = -1
             /\ features.dominant_freq = 0
             /\ features.tonalness = 0

\* a frame whose dominant band is not band 0 and holds a part, not all, of the
\* spectrum energy
C13_Witness ==
    /\ trace.path = "full"
    /\ FGt(TotalSpectrumEnergy, 0)
    /\ features.dominant_band > 0
    /\ features.tonalness > 0
    /\ features.tonalness < One
    /\ \E i \in Bands : /\ i # features.dominant_band
                         /\ trace.spectrum_bands[i] > 0

\* band i's centre lies within 5% of one of the multiples 2x .. 15x of the
\* centre of the band the fundamental was detected in
NearHarmonic(i) ==
    \E h \in 2 .. 15 :
        /\ 95 * h * Centre2(trace.temp_dominant_band) <= 100 * Centre2(i)
        /\ 100 * Centre2(i) <= 105 * h * Centre2(trace.temp_dominant_band)

\* C14: on a non-gated call in which a fundamental was detected, a spectrum
\* band whose centre is not within 5% of a multiple (2x .. 15x) of the
\* fundamental reaches the dominance and normalization stage with its
\* bass-boosted energy unattenuated.
C14_NoSuppressionOutsideWindow ==
    (trace.path = "full" /\ trace.temp_dominant_band >= 0) =>
        \A i \in Bands :
            ~NearHarmonic(i) => trace.spectrum_bands[i] = trace.boosted[i]

\* the 0.01 floor of the normalization, as an energy
Floor == EnergyOne \div 100

\* the last call was non-gated and found in legacy band name the energy the
\* call before it found, at least the floor
SteadyBand(name) ==
    /\ trace.path = "full"
    /\ steady.band[name] >= 2
    /\ FGt(trace.energy[name], Floor - 1)

SteadySpectrumBand(i) ==
    /\ trace.path = "full"
    /\ steady.spectrum[i] >= 2
    /\ FGt(trace.spectrum_bands[i], Floor - 1)

\* a peak under a steady energy e: never below e, strictly smaller than
\* before while above e, and e from the call it has got there
Settling(before, after, e) ==
    /\ IsFinite(after)
    /\ after >= e
    /\ FGt(before, e) => after < before
    /\ before = e => after = e

\* C15 (legacy bands): while a legacy band's energy keeps one value e >= 0.01
\* on consecutive non-gated calls, its running peak shrinks on every call
\* until it equals e and then stays e, and from then on the band's
\* normalized energy is 1.
C15_LegacyPeakSettles ==
    \A name \in NameSet :
        SteadyBand(name) =>
            /\ Settling(trace.before.band_max[name], analyzer.band_max[name],
                        trace.energy[name])
            /\ analyzer.band_max[name] = trace.energy[name] => features[name] = One

\* C15 (spectrum bands): while a spectrum band's energy keeps one value
\* e >= 0.01 on consecutive non-gated calls, its running peak shrinks on every
\* call until it equals e and then stays e; and once the dominant band's peak
\* equals its energy, that band's smoothed value never falls, and its
\* normalized value, which the smoothing moves towards, is 1 as soon as no
\* other band's peak is larger.
C15_SpectrumPeakSettles ==
    /\ \A i \in Bands :
          SteadySpectrumBand(i) =>
              Settling(trace.before.spectrum_max[i], analyzer.spectrum_max[i],
                       trace.spectrum_bands[i])
    /\ \A d \in Bands :
          ( /\ SteadySpectrumBand(d)
            /\ features.dominant_band = d
            /\ trace.before.spectrum_max[d] = trace.spectrum_bands[d] ) =>
              /\ LargestSpectrumPeak = trace.spectrum_bands[d] =>
                    trace.spectrum_norm[d] = One
              /\ IsFinite(features.spectrum[d])
              /\ features.spectrum[d] >= trace.before.prev_spectrum[d]
              /\ features.spectrum[d] <= One

\* C15: steady-state stability of the running peaks of the legacy bands and
\* of the spectrum bands.
C15_SteadyStateStability == C15_LegacyPeakSettles /\ C15_SpectrumPeakSettles

\* a config.py an analyzer may be built from: a positive sample rate, a
\* positive decay constant, and every band with 0 <= low < high
ValidConfig(cfg) ==
    /\ cfg.SAMPLE_RATE > 0
    /\ cfg.DECAY_TIME > 0
    /\ \A b \in 1 .. Len(cfg.FREQ_BANDS) :
          /\ 0 <= cfg.FREQ_BANDS[b].lo
          /\ cfg.FREQ_BANDS[b].lo < cfg.FREQ_BANDS[b].hi

\* C16: an AudioAnalyzer is never built from an invalid configuration (a band
\* with low >= high or an edge outside the FFT range, a non-positive decay
\* constant or sample rate): construction rejects it, so no analyze() call
\* runs under it.
C16_InvalidConfigRejectedAtConstruction ==
    /\ built = "yes" => ValidConfig(config)
    /\ calls > 0 => ValidConfig(config)


(***************************************************************************)
(* main.py: shutdown                                                       *)
(***************************************************************************)
\* the steps audio_thread_func has left once stop_event is set
AudioLeft(pc) ==
    CASE pc = "read" -> 5
      [] pc = "analyze" -> 4
      [] pc = "update" -> 3
      [] pc = "check" -> 2
      [] pc = "except" -> 2
      [] pc = "finally" -> 1
      [] pc = "done" -> 0

\* the steps led_thread_func has left once stop_event is set
LedLeft(pc) ==
    CASE pc = "get_spectrum" -> 7
      [] pc = "get_envelope" -> 6
      [] pc = "get_dominant_band" -> 5
      [] pc = "get_tonalness" -> 4
      [] pc = "render" -> 3
      [] pc = "check" -> 2
      [] pc = "except" -> 2
      [] pc = "finally" -> 1
      [] pc = "done" -> 0

\* C17: once stop_event is set, every step of the audio thread and of the
\* LED thread brings it closer to its end: the iteration under way runs to
\* its loop test, the loop test leaves the loop instead of starting another
\* iteration, and the thread function finishes after at most five (audio)
\* or seven (LED) further steps.
C17_StopEndsBothLoops ==
    [][stop_event =>
          /\ audio_pc' # audio_pc => AudioLeft(audio_pc') < AudioLeft(audio_pc)
          /\ led_pc' # led_pc => LedLeft(led_pc') < LedLeft(led_pc)]_vars

\* both threads have published and drawn, were stopped, and have ended
C17_Witness ==
    /\ stop_event
    /\ published > 0
    /\ audio_pc = "done"
    /\ led_pc = "done"

\* C18: a led_thread_func that has ended, through stop_event or through an
\* exception in rendering, has left every pixel at (0, 0, 0) and shown; an
\* audio_thread_func that has ended, through stop_event or through an
\* exception, has closed the audio source, and audio.close() is called
\* once and not before the thread leaves its loop.
C18_ShutdownZeroesOutput ==
    /\ led_pc = "done" => pixels = "black"
    /\ audio_pc = "done" => audio_closes = 1
    /\ audio_pc # "done" => audio_closes = 0

\* both threads left their loops through an exception, stop_event unset
C18_Witness ==
    /\ ~stop_event
    /\ published > 0
    /\ led_pc = "done"
    /\ pixels = "black"
    /\ audio_pc = "done"
    /\ audio_closes = 1

(***************************************************************************)
(* Returned frames                                                         *)
(***************************************************************************)
\* C19: the frame a call returned reads the same after the next call as it
\* did when it was returned, the contents of its spectrum array included,
\* and no step of the LED thread's rendering pass changes the analyzer, the
\* frame the analyzer returned or the frame in the shared dict.
C19_ReturnedFrameIsImmutable ==
    /\ [](earlier.now = earlier.returned)
    /\ [][led_pc' # led_pc =>
            UNCHANGED <<analyzer, features, earlier, shared_features>>]_vars

\* the analyzer's own spectrum has moved on since the earlier frame was
\* returned, and the strips have been drawn from a published frame
C19_Witness ==
    /\ calls > 1
    /\ earlier.returned.spectrum # analyzer.prev_spectrum
    /\ earlier.now = earlier.returned
    /\ published > 0
    /\ pixels = "frame"

(***************************************************************************)
(* Freshness of what the LED thread reads                                  *)
(***************************************************************************)
\* C20: under every interleaving of the audio thread and the LED thread,
\* the update whose value frequency_spectrum reads under a key is never an
\* earlier one than the update it read under that key the time before, and
\* never one that has not been made: with nothing new published it reads
\* the same frame again.
C20_FreshnessIsMonotone ==
    [][\A k \in DOMAIN seen : seen[k] <= seen'[k] /\ seen'[k] <= published']_vars

\* in a later pass the spectrum was read from the latest update while the
\* tonalness last read is still that of an earlier frame
C20_Witness ==
    /\ DOMAIN seen # {}
    /\ pixels = "frame"
    /\ led_pc = "get_envelope"
    /\ published > 0
    /\ seen["spectrum"] = published
    /\ seen["tonalness"] < published

(***************************************************************************)
(* The sample buffer of the 32-band spectrum                               *)
(***************************************************************************)
\* C22: after any calls with chunks of at most spectrum_n_fft samples,
\* spectrum_buffer has spectrum_n_fft entries: the latest gained samples of
\* the chunks that passed the noise gate, in the order they arrived, behind
\* as many zeros as are needed to fill it; a gated call leaves it as it was.
C22_BufferHoldsLatestSamples ==
    trace.length <= spectrum_n_fft =>
        /\ Len(analyzer.spectrum_buffer) = spectrum_n_fft
        /\ analyzer.spectrum_buffer =
              [m \in 1 .. spectrum_n_fft - Len(passed) |-> 0] \o passed

\* two chunks went into the buffer, the older one in its front half, and a
\* gated call followed
C22_Witness ==
    /\ calls = 3
    /\ trace.path = "gated"
    /\ Len(passed) = spectrum_n_fft
    /\ analyzer.spectrum_buffer = passed
    /\ \E m \in 1 .. CHUNK_SIZE : passed[m] # 0
    /\ \E m \in CHUNK_SIZE + 1 .. spectrum_n_fft : passed[m] # 0

(***************************************************************************)
(* Transient                                                               *)
(***************************************************************************)
\* max(0, total - prev) / max(total, 0.001), clamped to [0, 1]
TransientFormula(total, prev) ==
    NpClip(FRatio(PyMax(0, FSub(total, prev)), PyMax(total, EnergyOne \div 1000)),
           0, One)

\* the call was the first one to get past the noise gate
FirstFullCall == trace.path = "full" /\ trace.before = Carried(NewAnalyzer)

C23_TransientIsTheFormula ==
    trace.path = "full" =>
        features.transient =
            TransientFormula(trace.total_energy, trace.before.prev_raw_volume)

C23_NoRiseNoTransient ==
    trace.path = "full" /\ ~FGt(trace.total_energy, trace.before.prev_raw_volume)
        => features.transient = 0

C23_FirstCallIsOne ==
    FirstFullCall /\ FLe(EnergyOne \div 1000, trace.total_energy)
        => features.transient = One

TransientByBranch ==
    /\ trace.path = "full" =>
          features.transient =
              IF FGt(trace.total_energy, 0)
              THEN TransientFormula(trace.total_energy, trace.before.prev_raw_volume)
              ELSE 0
    /\ C23_NoRiseNoTransient
    /\ C23_FirstCallIsOne

\* a non-gated call with a nan total
NaNTotal ==
    /\ trace.path = "full"
    /\ IsNaN(trace.total_energy)
    /\ features.transient = 0

(***************************************************************************)
(* The envelope follower                                                   *)
(***************************************************************************)
\* the target of a call: max(bass, mid, high) of its frame, which is 0 for
\* a gated frame
FrameTarget == IF trace.path = "gated" THEN 0 ELSE trace.target

\* envelope * (1 - chunk_duration / DECAY_TIME), clamped to [0, 1]
Decayed(env) == NpClip(FScale(env, DecayFactor(SAMPLE_RATE, DECAY_TIME), One), 0, One)

C24_AttackOrDecay ==
    trace.path \in {"gated", "full"} =>
        features.envelope =
            IF FGt(FrameTarget, trace.env_before) THEN NpClip(FrameTarget, 0, One)
            ELSE Decayed(trace.env_before)

\* C24: on every analyze() call, gated or not, the envelope either jumps to
\* a target above it or is multiplied by 1 - chunk_duration / DECAY_TIME and
\* clamped to [0, 1]; a target equal to the envelope decays it, and the
\* envelope changes in no other way.
C24_TwoTransitionsOnly ==
    /\ C24_AttackOrDecay
    /\ analyzer.envelope_value = features.envelope

\* the two transitions on the calls that are not gated
FullCallAttackOrDecay == trace.path = "full" => C24_AttackOrDecay

(***************************************************************************)
(* The boundary of the noise gate                                          *)
(***************************************************************************)
\* a chunk whose gained RMS is NOISE_GATE_THRESHOLD takes the full path
BoundaryIsNotGated ==
    trace.path \in {"gated", "full"} /\ trace.volume = NOISE_GATE_THRESHOLD
        => trace.path = "full" /\ features.volume = NOISE_GATE_THRESHOLD

\* C25: a chunk whose gained RMS is exactly NOISE_GATE_THRESHOLD is not
\* gated; in every returned frame volume is 0 or at least
\* NOISE_GATE_THRESHOLD, never a value strictly between, and volume is
\* greater than 0 exactly when the full analysis path ran.
C25_GateBoundary ==
    /\ BoundaryIsNotGated
    /\ trace.path \in {"gated", "full"} =>
          /\ features.volume = 0 \/ FLe(NOISE_GATE_THRESHOLD, features.volume)
          /\ FGt(features.volume, 0) <=> trace.path = "full"

\* the same for the calls whose gained RMS is a number
GateBoundaryOfNumbers == IsNaN(trace.volume) \/ C25_GateBoundary

\* a chunk exactly at the threshold went down the full path
AtBoundary == trace.path = "full" /\ features.volume = NOISE_GATE_THRESHOLD

(***************************************************************************)
(* The running peaks as references                                         *)
(***************************************************************************)
PeaksNonNegative ==
    /\ \A name \in NameSet : FLe(0, analyzer.band_max[name])
    /\ \A i \in Bands : FLe(0, analyzer.spectrum_max[i])

PeaksCoverEnergy ==
    trace.path = "full" =>
        /\ \A name \in NameSet :
              /\ FLe(trace.energy[name], analyzer.band_max[name])
              /\ FLe(FRatio(trace.energy[name],
                            PyMax(analyzer.band_max[name], EnergyOne \div 100)), One)
        /\ \A i \in Bands : FLe(trace.spectrum_bands[i], analyzer.spectrum_max[i])

\* C26: in every reachable analyzer state every entry of band_max and of
\* spectrum_max is non-negative, and right after a non-gated call every
\* band's peak is at least the band's energy of that call, so that energy /
\* max(peak, 0.01) is at most 1 for every legacy band.
C26_PeaksAreValidReferences == PeaksNonNegative /\ PeaksCoverEnergy

\* the same while no nan has reached the spectrum peaks, which keep it
PeaksValidWithoutNaN ==
    (\A i \in Bands : ~IsNaN(analyzer.spectrum_max[i])) => C26_PeaksAreValidReferences

(***************************************************************************)
(* The dominant band through harmonic suppression and clean-up             *)
(***************************************************************************)
\* C27: for non-negative band energies with a positive sum, the band that
\* is the maximum after the bass boost has suppression factor 1 and leaves
\* harmonic suppression and clean-up with the energy it had after the boost,
\* no other band leaves them with more than it had, the reported
\* dominant_band is temp_dominant_band, and the clean-up loop runs only
\* after temp_dominant_band was assigned.
C27_DominantBandIsKept ==
    shaped.applied /\ SumTo(shaped.raw, NUM_SPECTRUM_BANDS) > 0 =>
        LET d == shaped.temp_dominant_band
        IN  /\ d = ArgMax(shaped.boosted)
            /\ shaped.harmonic_suppression[d] = One
            /\ shaped.cleaned[d] = shaped.boosted[d]
            /\ \A i \in Bands : shaped.cleaned[i] <= shaped.boosted[i]
            /\ shaped.dominant_band = d
            /\ ~shaped.name_error

\* the clean-up ran and lowered a band outside every harmonic window, the
\* harmonic suppression lowered another, and the dominant band stayed
C27_Witness ==
    /\ shaped.applied
    /\ shaped.cleanup
    /\ shaped.dominant_band = shaped.temp_dominant_band
    /\ shaped.dominant_band >= 0
    /\ \E i \in Bands :
          /\ shaped.harmonic_suppression[i] = One
          /\ shaped.cleaned[i] < shaped.boosted[i]
    /\ \E i \in Bands :
          /\ shaped.harmonic_suppression[i] < One
          /\ shaped.boosted[i] > 0

(***************************************************************************)
(* The statistics loop of test_audio.py                                    *)
(***************************************************************************)
\* C28: the statistics loop ends after one pass: in the first iteration in
\* which the input has wrapped to the start of the file,
\* audio.position < initial_position is true and the loop is left through
\* break.
C28_StatisticsLoopTerminates == stats.looped => stats.pc = "done"

\* the input has wrapped three times and the loop is still running
StillReading == stats.wraps >= 3 /\ stats.pc = "loop" /\ stats.length >= 2 * CHUNK_SIZE

\* after every read_chunk() the position is CHUNK_SIZE or more, and
\* initial_position is CHUNK_SIZE
PositionNeverBelowInitial ==
    ~stats.first_chunk =>
        stats.initial_position = CHUNK_SIZE /\ stats.position >= CHUNK_SIZE

(***************************************************************************)
(* The choice of the input device                                          *)
(***************************************************************************)
\* the devices with enough input channels
Suitable ==
    {i \in 0 .. Len(selected.devices) - 1 :
        selected.devices[i + 1].max_input_channels >= selected.min_input_channels}

\* the devices whose name contains the pattern, whatever the case
Named ==
    IF selected.preferred.type = "str" /\ Strip(selected.preferred.value) # <<>>
    THEN {i \in Suitable : In(Lower(selected.preferred.value),
                               Lower(selected.devices[i + 1].name))}
    ELSE {}

\* the stages of the fallback order, each a set of at most one device
Stages ==
    << IF selected.preferred.type \in {"int", "float"}
       THEN {IntOf(selected.preferred)} \cap Suitable ELSE {},
       IF Named = {} THEN {} ELSE {CHOOSE i \in Named : \A j \in Named : i <= j},
       IF selected.default.raises THEN {}
       ELSE {selected.default.device[1]} \cap Suitable,
       IF Suitable = {} THEN {}
       ELSE {CHOOSE i \in Suitable : \A j \in Suitable : i <= j} >>

\* the result of the fallback order
Resolved ==
    IF \A n \in 1 .. 4 : Stages[n] = {}
    THEN [kind |-> "raise", exception |-> "RuntimeError"]
    ELSE LET n == CHOOSE n \in 1 .. 4 :
                      Stages[n] # {} /\ \A k \in 1 .. n - 1 : Stages[k] = {}
         IN  [kind |-> "return", stage |-> n, idx |-> CHOOSE i \in Stages[n] : TRUE]

\* C29: the device is resolved by the fallback order explicit index, lowest
\* device matching the pattern, default input device, first device, each
\* stage skipping devices with fewer than min_input_channels; a returned
\* index has enough input channels; RuntimeError is raised exactly when no
\* device has enough input channels.
C29_FallbackOrder ==
    selected.applied =>
        /\ selected.result = Resolved
        /\ selected.result.kind = "return" => selected.result.idx \in Suitable
        /\ (selected.result = [kind |-> "raise", exception |-> "RuntimeError"])
              <=> Suitable = {}

\* the explicit index names no device of the list
NoSuchDevice ==
    /\ selected.preferred.type \in {"int", "float"}
    /\ IntOf(selected.preferred) \notin 0 .. Len(selected.devices) - 1

\* for every other value of preferred the fallback order is followed
FallbackOrderOfValidIndex ==
    selected.applied /\ ~NoSuchDevice =>
        /\ selected.result = Resolved
        /\ selected.result.kind = "return" => selected.result.idx \in Suitable
        /\ selected.result.kind = "raise" <=> Suitable = {}

\* an index that is no device ends the call in the library's exception,
\* whatever the devices
InvalidIndexRaises ==
    selected.applied /\ NoSuchDevice =>
        selected.result = [kind |-> "raise", exception |-> "PortAudioError"]

\* a suitable device is listed and the call raises
RaisedWithSuitableDevice ==
    selected.applied /\ Suitable # {} /\ selected.result.kind = "raise"

(***************************************************************************)
(* Silence and the strips                                                  *)
(***************************************************************************)
\* 0.7 ** n is below 0.005 from n = 15 on
DarkRenders == 15

\* the last frequency_spectrum() call drew a gated frame whose envelope is 0
DrewSilence == effects.zero_run >= 1

\* C30: under sustained silence the strips go dark: the envelope is 0 after
\* finitely many gated analyze() calls; after finitely many further
\* frequency_spectrum() calls the smoothed brightness is below 0.005; from
\* then on every frequency_spectrum() call on a silent frame fills the
\* strips with (0, 0, 0).
C30_SilenceGoesDark ==
    /\ silent_run >= SilentCallsToZero => features.envelope = 0
    /\ DrewSilence =>
          /\ ~effects.raised
          /\ FLt(effects.before, (5 * One) \div 1000) => effects.strips = "black"
          /\ effects.zero_run >= DarkRenders =>
                /\ FLt(effects._prev_brightness, (5 * One) \div 1000)
                /\ effects.strips = "black"

\* the same, for a silence that follows chunks of finite samples only
SilenceGoesDarkAfterFiniteInput ==
    finite_input => C30_SilenceGoesDark

\* the strips were lit, and the silence has been drawn black
WentDark ==
    /\ finite_input /\ calls > 0
    /\ effects.zero_run >= DarkRenders
    /\ effects.strips = "black"

\* the silence has been drawn DarkRenders times and more, every call has
\* raised, and the strips still show the last frame drawn
StaysLit ==
    /\ effects.zero_run >= DarkRenders
    /\ effects.raised
    /\ effects.strips = "frame"

(***************************************************************************)
(* A sine tone                                                             *)
(***************************************************************************)
\* the chunks after which the spectrum buffer holds the tone only
SettledChunks == 3

\* the spectrum band whose [low, high) contains the frequency
BandOf(freq) ==
    CHOOSE i \in Bands : SPECTRUM_FREQS(i) <= freq /\ freq < SPECTRUM_FREQS(i + 1)

\* the legacy band whose [low, high) contains the frequency
LegacyBandOf(freq) ==
    FREQ_BANDS[CHOOSE b \in BandIndex :
                   /\ FREQ_BANDS[b].lo * FreqOne <= freq
                   /\ freq < FREQ_BANDS[b].hi * FreqOne].name

\* C21: after several chunks of a sine tone of frequency f, dominant_band is
\* the spectrum band whose range contains f, tonalness is above 0.5, and of
\* the legacy bands the one containing f holds the most energy.
C21_ToneFindsItsBand ==
    tone.fed >= SettledChunks =>
        /\ features.dominant_band = BandOf(ToneFreq(tone.period))
        /\ FGt(features.tonalness, One \div 2)
        /\ \A name \in NameSet :
              trace.energy[name] <= trace.energy[LegacyBandOf(ToneFreq(tone.period))]

\* an FFT bin of the spectrum transform lies in the band of the tone
BandHasBin == spectrum_bins[BandOf(ToneFreq(tone.period))] # {}

\* the tone is found by the nearest band that holds an FFT bin
ToneWithoutBin ==
    /\ tone.fed >= SettledChunks
    /\ ~BandHasBin
    /\ features.dominant_band # BandOf(ToneFreq(tone.period))
    /\ trace.spectrum_bands[BandOf(ToneFreq(tone.period))] = 0

\* a band without a bin has no energy and is never the dominant band
EmptyBandIsNeverDominant ==
    tone.fed >= 1 =>
        \A i \in Bands :
            spectrum_bins[i] = {} =>
                trace.spectrum_bands[i] = 0 /\ features.dominant_band # i

==========================================================================
